---- MODULE Spec2Model ----
(***************************************************************************)
(* Model of the p-ickup ride-matching engine.                              *)
(*                                                                         *)
(*   src/RuleBased2/ruleMatching.py  match_bucket and its helpers          *)
(*   src/RuleBased2/rider_data.py    RiderLite, fetch order of the riders  *)
(*   src/Algorithm/buckets.py        make_buckets                          *)
(*   src/RuleBased/buckets.py        partition_riders                      *)
(*   src/Algorithm/config.py         NUM_BAGS, TERMINAL_MODE               *)
(*                                                                         *)
(* Conventions.  A Python list is a sequence (positions from 1, where the  *)
(* source counts from 0).  An Optional value is <<>> for None and <<v>>    *)
(* for a value v.  A time string "HH:MM:SS" is the triple <<h, m, s>> and  *)
(* a date string is a day number; datetime.fromisoformat turns both into   *)
(* a count of seconds (ToSeconds).  A score is the source's float score    *)
(* times 2 * max(1, NUM_BAGS), which is an integer for every group, and    *)
(* float("-inf") is NegInf.                                                *)
(***************************************************************************)
EXTENDS Integers, Sequences, FiniteSets, TLC

VARIABLES
    pc,             \* position of the operation the specification runs
    bucket,         \* match_bucket: the riders argument
    matches,        \* match_bucket: the returned list of Match
    leftovers,      \* match_bucket: the returned leftover riders
    members,        \* _is_valid_group: the members argument
    valid,          \* _is_valid_group: the returned bool
    riders,         \* make_buckets / partition_riders: the riders argument
    buckets,        \* make_buckets(riders), a dict in insertion order
    partition,      \* partition_riders(riders), a dict in insertion order
    scored_pairs,   \* match_bucket: its local `pairs` at return
    selected_pairs, \* match_bucket: its local `idx_pairs` at return
    raised,         \* the exception that left the operation, "" for none
    groups,         \* the committers: the list of groups to persist
    faults,         \* the committers: what the sink does for each group
    rides,          \* the sink: the ride ids of the rows of Rides
    match_rows,     \* the sink: the rows of Matches
    matched_flights,\* the sink: the flights with matched = true
    rides_created,  \* _commit_groups: the returned count
    rows,           \* the rows of the Flights query
    fetched,        \* fetch_riders(): the returned riders
    prepared,       \* prepare_riders(rows): the returned riders
    all_matches,    \* run: its local all_matches
    all_unmatched,  \* run: its local all_unmatched
    written,        \* run: the groups handed to the writer, as flight ids
    flights,        \* run_cycle: the eligible flights the repository returns
    coords,         \* run_cycle: the resolver's answer for each anchor name
    dry_run,        \* run_cycle: the dry_run argument
    cycle_groups,   \* run_cycle: its local `groups`
    cache,          \* LocationCache.cache
    file,           \* the rows of the cache file
    loaded,         \* the cache as _load_cache built it at construction
    resolver,       \* the coordinates _fetch_from_google returns
    calls,          \* the get_coordinates call of each thread
    now,            \* fetch_flights: datetime.now()
    unmatched,      \* fetch_flights: the rows of Flights with matched = false
    filtered,       \* fetch_flights: the returned rows
    other,          \* _score_group: the members argument of a second call
    scores,         \* _score_group: the returned scores of the two calls
    match,          \* _group_to_match: the returned Match
    raw_terminal,   \* the normalizers: the argument, a string or None
    normalized,     \* the normalizers: what each of them returns
    df,             \* apply_bag_constraint: the rows of df
    df_result       \* apply_bag_constraint: the rows of the returned frame

commitVars == <<groups, faults, rides, match_rows, matched_flights, rides_created>>

\* the variables of the operations around the matching
runVars == <<rows, fetched, prepared, all_matches, all_unmatched, written>>

cycleVars == <<flights, coords, dry_run, cycle_groups>>

cacheVars == <<cache, file, loaded, resolver, calls>>

filterVars == <<now, unmatched, filtered>>

\* the variables of the pure functions checked on their own
scoreVars == <<other, scores, match>>

terminalVars == <<raw_terminal, normalized>>

bagVars == <<df, df_result>>

auxVars == <<scoreVars, terminalVars, bagVars>>

ioVars == <<raised, commitVars, runVars, cycleVars, cacheVars, filterVars, auxVars>>

vars == <<pc, bucket, matches, leftovers, members, valid,
          riders, buckets, partition, scored_pairs, selected_pairs, ioVars>>

bucketVars == <<bucket, matches, leftovers, scored_pairs, selected_pairs>>
validVars  == <<members, valid>>
partVars   == <<riders, buckets, partition>>

-----------------------------------------------------------------------------
(* Configuration: src/Algorithm/config.py *)

NUM_BAGS == 10

TERMINAL_MODE == "strict"

(* float("-inf"): below every score a group can have *)
NegInf == -1000000000

-----------------------------------------------------------------------------
(* Bounds of the model *)

\* longest bucket handed to match_bucket
MaxRiders == 4

\* longest member list handed to _is_valid_group
MaxMembers == 5

\* longest rider list handed to make_buckets and partition_riders
MaxInput == 5

-----------------------------------------------------------------------------
(* Sequence helpers *)

Range(s) == {s[k] : k \in 1..Len(s)}

\* Python's `x in list`
InList(x, s) == \E k \in 1..Len(s) : s[k] = x

\* Python's list.index(x): the first position holding a value equal to x
IndexOf(s, x) == CHOOSE k \in 1..Len(s) : s[k] = x /\ \A l \in 1..(k - 1) : s[l] # x

Max2(a, b) == IF a >= b THEN a ELSE b
Min2(a, b) == IF a <= b THEN a ELSE b

\* Python's max(list) and min(list) of a non-empty list of integers
RECURSIVE MaxOf(_)
MaxOf(s) == IF Len(s) = 1 THEN s[1] ELSE Max2(s[1], MaxOf(Tail(s)))

RECURSIVE MinOf(_)
MinOf(s) == IF Len(s) = 1 THEN s[1] ELSE Min2(s[1], MinOf(Tail(s)))

-----------------------------------------------------------------------------
(* src/RuleBased2/ruleMatching.py *)

\* datetime.fromisoformat(f"{date}T{time}") as seconds since day 0, 00:00:00
ToSeconds(date, time) == date * 86400 + time[1] * 3600 + time[2] * 60 + time[3]

\* the datetime of a count of seconds, as <<day, h, m, s>> (isoformat's fields)
FromSeconds(t) == <<t \div 86400, (t % 86400) \div 3600, (t % 3600) \div 60, t % 60>>

_interval(r) ==
    <<ToSeconds(r.date, r.earliest_time), ToSeconds(r.date, r.latest_time)>>

\* a variant that measures from the earliest start to the latest end
_intersection_span(ms) ==
    LET starts == [k \in 1..Len(ms) |-> _interval(ms[k])[1]]
        ends   == [k \in 1..Len(ms) |-> _interval(ms[k])[2]]
        start  == MinOf(starts)
        end    == MaxOf(ends)
    IN  <<start, end, (end - start) \div 60>>

\* <<start, end, minutes>>
_intersection(ms) ==
    LET starts == [k \in 1..Len(ms) |-> _interval(ms[k])[1]]
        ends   == [k \in 1..Len(ms) |-> _interval(ms[k])[2]]
        start  == MaxOf(starts)
        end    == MinOf(ends)
    IN  <<start, end, (end - start) \div 60>>

\* `x or 0` of an Optional[int]
OrZero(x) == IF x = <<>> THEN 0 ELSE x[1]

\* `t or ""` of an Optional[str]
OrEmpty(t) == IF t = <<>> THEN "" ELSE t[1]

\* a variant that forgets the large bags
_bags_for_small_only(r) == OrZero(r.bags_no)

_bags_for(r) == OrZero(r.bags_no) + OrZero(r.bags_no_large)

RECURSIVE _bags_total(_)
_bags_total(ms) ==
    IF ms = <<>> THEN 0 ELSE _bags_for(ms[1]) + _bags_total(Tail(ms))

\* set(terms) of terms = [m.terminal or "" for m in members]
TermSet(ms) == {OrEmpty(ms[k].terminal) : k \in 1..Len(ms)}

\* a variant without the strict-mode terminal check
_is_valid_group_any_terminal(ms) ==
    IF ~(2 <= Len(ms) /\ Len(ms) <= 4) THEN FALSE
    ELSE IF _intersection(ms)[3] <= 0 THEN FALSE
    ELSE IF _bags_total(ms) > NUM_BAGS THEN FALSE
    ELSE TRUE

_is_valid_group(ms) ==
    IF ~(2 <= Len(ms) /\ Len(ms) <= 4) THEN FALSE
    ELSE IF _intersection(ms)[3] <= 0 THEN FALSE
    ELSE IF _bags_total(ms) > NUM_BAGS THEN FALSE
    ELSE IF TERMINAL_MODE = "strict" /\ Cardinality(TermSet(ms)) > 1 THEN FALSE
    ELSE TRUE

\* the penalty times 2: 0 or 1
_terminal_penalty(ms) ==
    IF TERMINAL_MODE = "strict" THEN 0
    ELSE IF Cardinality(TermSet(ms)) <= 1 THEN 0 ELSE 1

\* a variant whose bag bonus is 1.5 * fill
_score_group_heavy_bags(ms, validate) ==
    IF validate /\ ~_is_valid_group(ms) THEN NegInf
    ELSE IF _intersection(ms)[3] <= 0 THEN NegInf
    ELSE LET cap == Max2(1, NUM_BAGS)
         IN  2 * cap * _intersection(ms)[3]
               - _terminal_penalty(ms) * 1000 * cap
               + 3 * Min2(_bags_total(ms), cap)

\* the score times 2 * max(1, NUM_BAGS)
_score_group(ms, validate) ==
    IF validate /\ ~_is_valid_group(ms) THEN NegInf
    ELSE IF _intersection(ms)[3] <= 0 THEN NegInf
    ELSE LET cap == Max2(1, NUM_BAGS)
         IN  2 * cap * _intersection(ms)[3]
               - _terminal_penalty(ms) * 1000 * cap
               + Min2(_bags_total(ms), cap)

\* the pairs (i, j), i < j, in the order of the two nested loops
RECURSIVE PairsFrom(_, _, _)
PairsFrom(i, j, n) ==
    IF i > n THEN <<>>
    ELSE IF j > n THEN PairsFrom(i + 1, i + 2, n)
    ELSE <<<<i, j>>>> \o PairsFrom(i, j + 1, n)

\* a variant of the sort that puts a pair before the pairs of equal score
RECURSIVE SortByScoreDescTiesFirst(_)
SortByScoreDescTiesFirst(ps) ==
    IF ps = <<>> THEN <<>>
    ELSE LET rest == SortByScoreDescTiesFirst(SubSeq(ps, 1, Len(ps) - 1))
             p    == ps[Len(ps)]
             k    == Cardinality({x \in 1..Len(rest) : rest[x][3] > p[3]})
         IN  SubSeq(rest, 1, k) \o <<p>> \o SubSeq(rest, k + 1, Len(rest))

\* list.sort(key=score, reverse=True): stable, descending
RECURSIVE SortByScoreDesc(_)
SortByScoreDesc(ps) ==
    IF ps = <<>> THEN <<>>
    ELSE LET rest == SortByScoreDesc(SubSeq(ps, 1, Len(ps) - 1))
             p    == ps[Len(ps)]
             k    == Cardinality({x \in 1..Len(rest) : rest[x][3] >= p[3]})
         IN  SubSeq(rest, 1, k) \o <<p>> \o SubSeq(rest, k + 1, Len(rest))

RECURSIVE ScoredFrom(_, _, _)
ScoredFrom(rs, ij, k) ==
    IF k > Len(ij) THEN <<>>
    ELSE LET i == ij[k][1]
             j == ij[k][2]
             score == _score_group(<<rs[i], rs[j]>>, TRUE)
         IN  (IF score # NegInf THEN <<<<i, j, score>>>> ELSE <<>>)
               \o ScoredFrom(rs, ij, k + 1)

_build_scored_pairs(rs) ==
    SortByScoreDesc(ScoredFrom(rs, PairsFrom(1, 2, Len(rs)), 1))

\* a variant of the selection that marks the first rider of a pair only
RECURSIVE SelectFromFirstOnly(_, _, _)
SelectFromFirstOnly(pairs, used, k) ==
    IF k > Len(pairs) THEN <<>>
    ELSE LET i == pairs[k][1]
             j == pairs[k][2]
         IN  IF i \in used \/ j \in used
             THEN SelectFromFirstOnly(pairs, used, k + 1)
             ELSE <<<<i, j>>>> \o SelectFromFirstOnly(pairs, used \cup {i}, k + 1)

RECURSIVE SelectFrom(_, _, _)
SelectFrom(pairs, used, k) ==
    IF k > Len(pairs) THEN <<>>
    ELSE LET i == pairs[k][1]
             j == pairs[k][2]
         IN  IF i \in used \/ j \in used
             THEN SelectFrom(pairs, used, k + 1)
             ELSE <<<<i, j>>>> \o SelectFrom(pairs, used \cup {i, j}, k + 1)

_select_pairs(pairs) == SelectFrom(pairs, {}, 1)

\* a variant of the scan that gives up at the first candidate it cannot add
RECURSIVE BestFromUntilInvalid(_, _, _, _, _)
BestFromUntilInvalid(group, candidates, k, best, best_score) ==
    IF k > Len(candidates) THEN best
    ELSE LET c == candidates[k]
         IN  IF InList(c, group)
             THEN BestFromUntilInvalid(group, candidates, k + 1, best, best_score)
             ELSE LET score == _score_group(group \o <<c>>, TRUE)
                  IN  IF score = NegInf THEN best
                      ELSE IF score > best_score
                      THEN BestFromUntilInvalid(group, candidates, k + 1, k, score)
                      ELSE BestFromUntilInvalid(group, candidates, k + 1, best, best_score)

\* a variant of the scan in which a later rider of equal score replaces the
\* best found so far
RECURSIVE BestFromTiesLast(_, _, _, _, _)
BestFromTiesLast(group, candidates, k, best, best_score) ==
    IF k > Len(candidates) THEN best
    ELSE LET c == candidates[k]
         IN  IF InList(c, group)
             THEN BestFromTiesLast(group, candidates, k + 1, best, best_score)
             ELSE LET score == _score_group(group \o <<c>>, TRUE)
                  IN  IF score >= best_score /\ score # NegInf
                      THEN BestFromTiesLast(group, candidates, k + 1, k, score)
                      ELSE BestFromTiesLast(group, candidates, k + 1, best, best_score)

\* one pass of the for loop of _expand_group: the position in candidates of
\* `best` (0 for None), from position k on with the best found so far
RECURSIVE BestFrom(_, _, _, _, _)
BestFrom(group, candidates, k, best, best_score) ==
    IF k > Len(candidates) THEN best
    ELSE LET c == candidates[k]
         IN  IF InList(c, group)
             THEN BestFrom(group, candidates, k + 1, best, best_score)
             ELSE LET score == _score_group(group \o <<c>>, TRUE)
                  IN  IF score > best_score
                      THEN BestFrom(group, candidates, k + 1, k, score)
                      ELSE BestFrom(group, candidates, k + 1, best, best_score)

\* a variant that stops the expansion one rider early
ExpandLimitThree == 4 - 1

\* the bound of `while len(group) < 4`
ExpandLimit == 4

RECURSIVE _expand_group(_, _)
_expand_group(seed, candidates) ==
    IF ~(Len(seed) < ExpandLimit) THEN seed
    ELSE LET best == BestFrom(seed, candidates, 1, 0, NegInf)
         IN  IF best = 0 THEN seed
             ELSE _expand_group(seed \o <<candidates[best]>>, candidates)

\* a variant that drops the sub-second part only: mid.replace(microsecond=0)
SuggestedTimeSeconds(start, end) == (2 * start + (end - start)) \div 2

\* mid.replace(second=0, microsecond=0) of mid = start + (end - start) / 2
SuggestedTime(start, end) == ((2 * start + (end - start)) \div 120) * 60

\* a variant that reports the first rider's terminal whatever the others have
_group_to_match_first_terminal(group, bucket_key) ==
    LET x     == _intersection(group)
        terms == [k \in 1..Len(group) |-> OrEmpty(group[k].terminal)]
    IN  [riders             |-> group,
         suggested_time_iso |-> FromSeconds(SuggestedTime(x[1], x[2])),
         terminal           |-> <<terms[1]>>,
         bucket_key         |-> bucket_key]

_group_to_match(group, bucket_key) ==
    LET x     == _intersection(group)
        terms == [k \in 1..Len(group) |-> OrEmpty(group[k].terminal)]
    IN  [riders             |-> group,
         suggested_time_iso |-> FromSeconds(SuggestedTime(x[1], x[2])),
         terminal           |-> IF Cardinality(Range(terms)) = 1
                                THEN <<terms[1]>> ELSE <<>>,
         bucket_key         |-> bucket_key]

\* a variant that marks the seed pair only
MarkUsedSeedOnly(used, rs, group) ==
    used \cup {IndexOf(rs, group[1]), IndexOf(rs, group[2])}

\* for g in group: used.add(riders.index(g))
MarkUsed(used, rs, group) == used \cup {IndexOf(rs, group[k]) : k \in 1..Len(group)}

\* the loop `for i, j in idx_pairs` from position k on: the matches appended
\* and the final `used`
RECURSIVE GroupsFrom(_, _, _, _, _)
GroupsFrom(rs, idx_pairs, k, used, bucket_key) ==
    IF k > Len(idx_pairs) THEN [matches |-> <<>>, used |-> used]
    ELSE LET i == idx_pairs[k][1]
             j == idx_pairs[k][2]
         IN  IF i \in used \/ j \in used
             THEN GroupsFrom(rs, idx_pairs, k + 1, used, bucket_key)
             ELSE LET group == _expand_group(<<rs[i], rs[j]>>, rs)
                      rest  == GroupsFrom(rs, idx_pairs, k + 1,
                                          MarkUsed(used, rs, group), bucket_key)
                  IN  [matches |-> <<_group_to_match(group, bucket_key)>>
                                     \o rest.matches,
                       used    |-> rest.used]

\* [r for k, r in enumerate(riders) if k not in used]
RECURSIVE NotUsed(_, _, _)
NotUsed(rs, used, k) ==
    IF k > Len(rs) THEN <<>>
    ELSE (IF k \in used THEN <<>> ELSE <<rs[k]>>) \o NotUsed(rs, used, k + 1)

\* a variant that returns no leftovers
NoMatchesNoLeftovers(rs) == [matches |-> <<>>, leftovers |-> <<>>]

\* `return [], list(riders)`
NoMatches(rs) == [matches |-> <<>>, leftovers |-> rs]

match_bucket(rs, bucket_key) ==
    IF Len(rs) < 2 THEN NoMatches(rs)
    ELSE LET pairs == _build_scored_pairs(rs)
         IN  IF pairs = <<>> THEN NoMatches(rs)
             ELSE LET res == GroupsFrom(rs, _select_pairs(pairs), 1, {}, bucket_key)
                  IN  [matches   |-> res.matches,
                       leftovers |-> NotUsed(rs, res.used, 1)]

-----------------------------------------------------------------------------
(* The riders a bucket can hold.  fetch_riders builds one RiderLite per row *)
(* of Flights (flight_id is the table's key), the terminal always a string *)
(* (normalize_terminal), the bag counts None where the row has none; the   *)
(* rows come ordered by date, then earliest_time.                          *)

Windows ==
    { [date |-> 1, earliest_time |-> <<9, 0, 0>>,   latest_time |-> <<10, 0, 0>>],
      [date |-> 1, earliest_time |-> <<9, 30, 0>>,  latest_time |-> <<10, 30, 0>>],
      [date |-> 1, earliest_time |-> <<9, 59, 30>>, latest_time |-> <<10, 30, 0>>] }

\* <<bags_no, bags_no_large>>
BagChoices == { <<<<1>>, <<>>>>, <<<<3>>, <<2>>>> }

Terminals == { <<"1">>, <<"UNKNOWN">> }

Profiles ==
    [window : Windows, bags : BagChoices, terminal : Terminals]

BucketKeyOf == "TO LAX"

RiderOf(id, p) ==
    [flight_id     |-> id,
     date          |-> p.window.date,
     earliest_time |-> p.window.earliest_time,
     latest_time   |-> p.window.latest_time,
     terminal      |-> p.terminal,
     bags_no       |-> p.bags[1],
     bags_no_large |-> p.bags[2]]

\* .order("date").order("earliest_time") of fetch_flights
FetchOrdered(rs) ==
    \A k \in 1..(Len(rs) - 1) :
        ToSeconds(rs[k].date, rs[k].earliest_time)
            <= ToSeconds(rs[k + 1].date, rs[k + 1].earliest_time)

-----------------------------------------------------------------------------
(* Specification Spec: match_bucket on one bucket *)

IdleBucket ==
    /\ bucket = <<>> /\ matches = <<>> /\ leftovers = <<>>
    /\ scored_pairs = <<>> /\ selected_pairs = <<>>
IdleValid  == members = <<>> /\ valid = FALSE
IdlePart   == riders = <<>> /\ buckets = <<>> /\ partition = <<>>

IdleCommit ==
    /\ groups = <<>> /\ faults = <<>> /\ rides = <<>> /\ match_rows = <<>>
    /\ matched_flights = {} /\ rides_created = 0

IdleRun ==
    /\ rows = <<>> /\ fetched = <<>> /\ prepared = <<>>
    /\ all_matches = <<>> /\ all_unmatched = <<>> /\ written = <<>>

IdleCycle ==
    /\ flights = <<>> /\ coords = <<>> /\ dry_run = FALSE /\ cycle_groups = <<>>

IdleLocationCache ==
    /\ cache = <<>> /\ file = <<>> /\ loaded = <<>> /\ resolver = <<>> /\ calls = <<>>

IdleFilter == now = <<>> /\ unmatched = <<>> /\ filtered = <<>>

IdleScore == other = <<>> /\ scores = <<>> /\ match = <<>>

IdleTerminal == raw_terminal = <<>> /\ normalized = <<>>

IdleBag == df = <<>> /\ df_result = <<>>

IdleAux == IdleScore /\ IdleTerminal /\ IdleBag

IdleIO ==
    /\ raised = "" /\ IdleCommit /\ IdleRun /\ IdleCycle /\ IdleLocationCache
    /\ IdleFilter /\ IdleAux

Init ==
    /\ pc = "ready"
    /\ \E n \in 0..MaxRiders : \E f \in [1..n -> Profiles] :
          /\ bucket = [k \in 1..n |-> RiderOf(k, f[k])]
          /\ FetchOrdered(bucket)
    /\ matches = <<>>
    /\ leftovers = <<>>
    /\ scored_pairs = <<>>
    /\ selected_pairs = <<>>
    /\ IdleValid /\ IdlePart /\ IdleIO

MatchBucket ==
    /\ pc = "ready"
    /\ LET res == match_bucket(bucket, BucketKeyOf)
       IN  /\ matches' = res.matches
           /\ leftovers' = res.leftovers
    /\ scored_pairs' = (IF Len(bucket) < 2 THEN <<>> ELSE _build_scored_pairs(bucket))
    /\ selected_pairs' = (IF Len(bucket) < 2 THEN <<>>
                          ELSE _select_pairs(_build_scored_pairs(bucket)))
    /\ pc' = "done"
    /\ UNCHANGED <<bucket, validVars, partVars, ioVars>>

Next == MatchBucket

Spec == Init /\ [][Next]_vars

-----------------------------------------------------------------------------
(* Specification SpecFive: match_bucket on the buckets of five riders *)

InitFive ==
    /\ pc = "ready"
    /\ \E f \in [1..5 -> Profiles] :
          /\ bucket = [k \in 1..5 |-> RiderOf(k, f[k])]
          /\ FetchOrdered(bucket)
    /\ matches = <<>>
    /\ leftovers = <<>>
    /\ scored_pairs = <<>>
    /\ selected_pairs = <<>>
    /\ IdleValid /\ IdlePart /\ IdleIO

SpecFive == InitFive /\ [][Next]_vars

-----------------------------------------------------------------------------
(* Specification SpecValid: _is_valid_group on one list of members *)

ValidWindows ==
    { [date |-> 1, earliest_time |-> <<9, 0, 0>>,   latest_time |-> <<10, 0, 0>>],
      [date |-> 1, earliest_time |-> <<9, 59, 30>>, latest_time |-> <<10, 30, 0>>],
      [date |-> 1, earliest_time |-> <<10, 0, 0>>,  latest_time |-> <<10, 30, 0>>] }

\* <<bags_no, bags_no_large, terminal>>
ValidLoads ==
    { <<<<2>>, <<>>,  <<"T1">>>>,
      <<<<1>>, <<8>>, <<"T1">>>>,
      <<<<2>>, <<0>>, <<"T2">>>> }

MemberOf(id, w, l) ==
    [flight_id     |-> id,
     date          |-> w.date,
     earliest_time |-> w.earliest_time,
     latest_time   |-> w.latest_time,
     terminal      |-> l[3],
     bags_no       |-> l[1],
     bags_no_large |-> l[2]]

InitValid ==
    /\ pc = "ready"
    /\ \E n \in 0..MaxMembers : \E f \in [1..n -> ValidWindows \X ValidLoads] :
          members = [k \in 1..n |-> MemberOf(k, f[k][1], f[k][2])]
    /\ valid = FALSE
    /\ IdleBucket /\ IdlePart /\ IdleIO

ValidateGroup ==
    /\ pc = "ready"
    /\ valid' = _is_valid_group(members)
    /\ pc' = "validated"
    /\ UNCHANGED <<members, bucketVars, partVars, ioVars>>

NextValid == ValidateGroup

SpecValid == InitValid /\ [][NextValid]_vars

-----------------------------------------------------------------------------
(* src/Algorithm/buckets.py and src/RuleBased/buckets.py.  A dict is the   *)
(* sequence of its entries in insertion order.                             *)

\* a variant that leaves the direction out of the label
_bucket_label_airport_only(r) == r.airport

_bucket_label(r) == (IF r.to_airport THEN "TO" ELSE "FROM") \o " " \o r.airport

\* buckets[key].append(r) on a defaultdict(list)
DictAppend(d, key, r) ==
    IF \E e \in 1..Len(d) : d[e].key = key
    THEN [e \in 1..Len(d) |->
            IF d[e].key = key THEN [d[e] EXCEPT !.riders = Append(@, r)] ELSE d[e]]
    ELSE Append(d, [key |-> key, riders |-> <<r>>])

RECURSIVE MakeFrom(_, _, _)
MakeFrom(rs, k, d) ==
    IF k > Len(rs) THEN d
    ELSE MakeFrom(rs, k + 1, DictAppend(d, _bucket_label(rs[k]), rs[k]))

make_buckets(rs) == MakeFrom(rs, 1, <<>>)

\* key: BucketKey = (rider["to_airport"], rider["airport"])
BucketKey(r) == <<r.to_airport, r.airport>>

RECURSIVE PartitionFrom(_, _, _)
PartitionFrom(rs, k, d) ==
    IF k > Len(rs) THEN d
    ELSE PartitionFrom(rs, k + 1, DictAppend(d, BucketKey(rs[k]), rs[k]))

\* the entry's riders are the value's "all" list, copied on return
partition_riders(rs) ==
    LET d == PartitionFrom(rs, 1, <<>>)
    IN  [e \in 1..Len(d) |->
            [key |-> d[e].key, riders |-> SubSeq(d[e].riders, 1, Len(d[e].riders))]]

-----------------------------------------------------------------------------
(* Specification SpecBuckets: make_buckets or partition_riders on one list *)

Airports == {"LAX", "ONT"}

InputRider(id, to_airport, airport) ==
    [flight_id     |-> id,
     to_airport    |-> to_airport,
     airport       |-> airport,
     date          |-> 1,
     earliest_time |-> <<9, 0, 0>>,
     latest_time   |-> <<10, 0, 0>>,
     terminal      |-> <<"1">>,
     bags_no       |-> <<1>>,
     bags_no_large |-> <<>>]

InitBuckets ==
    /\ pc = "ready"
    /\ \E n \in 0..MaxInput : \E f \in [1..n -> BOOLEAN \X Airports] :
          riders = [k \in 1..n |-> InputRider(k, f[k][1], f[k][2])]
    /\ buckets = <<>>
    /\ partition = <<>>
    /\ IdleBucket /\ IdleValid /\ IdleIO

MakeBuckets ==
    /\ pc = "ready"
    /\ buckets' = make_buckets(riders)
    /\ pc' = "made"
    /\ UNCHANGED <<riders, partition, bucketVars, validVars, ioVars>>

PartitionRiders ==
    /\ pc = "ready"
    /\ partition' = partition_riders(riders)
    /\ pc' = "partitioned"
    /\ UNCHANGED <<riders, buckets, bucketVars, validVars, ioVars>>

NextBuckets == MakeBuckets \/ PartitionRiders

SpecBuckets == InitBuckets /\ [][NextBuckets]_vars

-----------------------------------------------------------------------------
(* Properties.  They are stated on the riders' own fields, not with the   *)
(* operators above.                                                        *)

Earliest(r) == ToSeconds(r.date, r.earliest_time)
Latest(r)   == ToSeconds(r.date, r.latest_time)

\* max(earliest) < min(latest) over the members of g
WindowsIntersect(g) ==
    \A k \in 1..Len(g) : \A l \in 1..Len(g) : Earliest(g[k]) < Latest(g[l])

\* the intersection [max earliest, min latest) of a non-empty g
StartOf(g) == CHOOSE t \in {Earliest(g[k]) : k \in 1..Len(g)} :
                  \A k \in 1..Len(g) : Earliest(g[k]) <= t
EndOf(g)   == CHOOSE t \in {Latest(g[k]) : k \in 1..Len(g)} :
                  \A k \in 1..Len(g) : t <= Latest(g[k])

Count(x) == IF x = <<>> THEN 0 ELSE x[1]

\* small and large bags of all members of g
TotalBags(g) ==
    LET small[k \in 0..Len(g)] == IF k = 0 THEN 0 ELSE small[k - 1] + Count(g[k].bags_no)
        large[k \in 0..Len(g)] == IF k = 0 THEN 0 ELSE large[k - 1] + Count(g[k].bags_no_large)
    IN  small[Len(g)] + large[Len(g)]

SameTerminal(g) == \A k \in 1..Len(g) : \A l \in 1..Len(g) : g[k].terminal = g[l].terminal

Strict == TERMINAL_MODE = "strict"

SizeOk(g) == 2 <= Len(g) /\ Len(g) <= 4

\* the hard validity predicate of a group
HardValid(g) ==
    /\ SizeOk(g)
    /\ WindowsIntersect(g)
    /\ TotalBags(g) <= NUM_BAGS
    /\ (Strict => SameTerminal(g))

GroupOf(a) == matches[a].riders

InGroup(r, a) == \E k \in 1..Len(GroupOf(a)) : GroupOf(a)[k] = r

Grouped(r) == \E a \in 1..Len(matches) : InGroup(r, a)

(* C1: after match_bucket returns, no rider is a member of two different    *)
(* returned groups.                                                         *)
C1_NoRiderInTwoGroups ==
    pc = "done" =>
        \A a \in 1..Len(matches) : \A b \in 1..Len(matches) :
            a # b => ~\E k \in 1..Len(bucket) :
                        InGroup(bucket[k], a) /\ InGroup(bucket[k], b)

(* C3: every group match_bucket returns has 2 to 4 members, all of them     *)
(* riders of the bucket, with max(earliest) < min(latest), total bags at    *)
(* most NUM_BAGS and, in strict mode, one terminal value.                   *)
C3_GroupsAreHardValid ==
    pc = "done" =>
        \A a \in 1..Len(matches) :
            /\ HardValid(GroupOf(a))
            /\ \A k \in 1..Len(GroupOf(a)) : InList(GroupOf(a)[k], bucket)

\* match_bucket has returned a group it expanded beyond its seed pair
C3_Witness ==
    /\ pc = "done"
    /\ \E a \in 1..Len(matches) : Len(GroupOf(a)) >= 3

(* C7: the leftovers of match_bucket are exactly the bucket riders that are *)
(* members of no returned group, in bucket order; no rider is both grouped  *)
(* and leftover, and none is neither.                                       *)
C7_LeftoversAreTheUngrouped ==
    pc = "done" =>
        /\ leftovers = SelectSeq(bucket, LAMBDA r : ~Grouped(r))
        /\ \A k \in 1..Len(bucket) : Grouped(bucket[k]) <=> ~InList(bucket[k], leftovers)

\* match_bucket has returned both a group and a leftover
C7_Witness ==
    /\ pc = "done"
    /\ Len(matches) >= 1
    /\ Len(leftovers) >= 1

(* C8: match_bucket on a bucket of fewer than two riders returns no group   *)
(* and the bucket's riders as the leftovers.                                *)
C8_SmallBucketNoGroup ==
    (pc = "done" /\ Len(bucket) < 2) =>
        /\ matches = <<>>
        /\ leftovers = bucket

\* match_bucket has returned for a one-rider bucket
C8_Witness ==
    /\ pc = "done"
    /\ Len(bucket) = 1
    /\ Len(leftovers) = 1

\* the sub-lists of bucket with 2 to 4 riders
SubGroups(rs) ==
    { SelectSeq(rs, LAMBDA r : r.flight_id \in S) :
        S \in {T \in SUBSET {rs[k].flight_id : k \in 1..Len(rs)} :
                  2 <= Cardinality(T) /\ Cardinality(T) <= 4} }

MutuallyCompatible(rs) == \A g \in SubGroups(rs) : _is_valid_group(g)

(* C9: for a bucket of 5 riders of which every 2 to 4 form a valid group,   *)
(* match_bucket returns at most 2 groups, each of at most 4 riders, and at  *)
(* most 1 leftover.                                                         *)
C9_FiveCompatibleRiders ==
    (pc = "done" /\ Len(bucket) = 5 /\ MutuallyCompatible(bucket)) =>
        /\ Len(matches) <= 2
        /\ \A a \in 1..Len(matches) : Len(GroupOf(a)) <= 4
        /\ Len(leftovers) <= 1

\* match_bucket has returned for five mutually compatible riders
C9_Witness ==
    /\ pc = "done"
    /\ Len(bucket) = 5
    /\ MutuallyCompatible(bucket)
    /\ Len(matches) >= 1

\* twice the midpoint of the intersection of g, in seconds
TwiceMidpoint(g) == StartOf(g) + EndOf(g)

\* the windows of the example: 09:00-10:00 and 09:30-10:30
ExampleBucket ==
    /\ Len(bucket) = 2
    /\ bucket[1].earliest_time = <<9, 0, 0>>  /\ bucket[1].latest_time = <<10, 0, 0>>
    /\ bucket[2].earliest_time = <<9, 30, 0>> /\ bucket[2].latest_time = <<10, 30, 0>>
    /\ bucket[1].date = bucket[2].date

(* C10 as the code has it: the suggested time of every group is the         *)
(* midpoint of its intersection truncated to whole minutes (seconds and     *)
(* sub-second part dropped); for windows 09:00-10:00 and 09:30-10:30 the    *)
(* intersection is 09:30-10:00 (30 minutes) and the suggested time 09:45.   *)
C10_SuggestedTimeWholeMinute ==
    pc = "done" =>
        /\ \A a \in 1..Len(matches) :
              matches[a].suggested_time_iso
                  = FromSeconds(60 * (TwiceMidpoint(GroupOf(a)) \div 120))
        /\ (ExampleBucket /\ Len(matches) = 1) =>
              /\ FromSeconds(StartOf(GroupOf(1))) = <<bucket[1].date, 9, 30, 0>>
              /\ FromSeconds(EndOf(GroupOf(1))) = <<bucket[1].date, 10, 0, 0>>
              /\ EndOf(GroupOf(1)) - StartOf(GroupOf(1)) = 30 * 60
              /\ matches[1].suggested_time_iso = <<bucket[1].date, 9, 45, 0>>

\* a group whose midpoint does not fall on a whole minute has been returned
C10_Witness ==
    /\ pc = "done"
    /\ \E a \in 1..Len(matches) : (TwiceMidpoint(GroupOf(a)) \div 2) % 60 # 0

(* C10 as claimed: the suggested time of every group is the midpoint of its *)
(* intersection truncated to whole seconds, the seconds kept.               *)
C10_SuggestedTimeWholeSecond ==
    pc = "done" =>
        \A a \in 1..Len(matches) :
            matches[a].suggested_time_iso
                = FromSeconds(TwiceMidpoint(GroupOf(a)) \div 2)

(* C4: _is_valid_group rejects a group whose size is outside 2..4, or whose *)
(* max(earliest) >= min(latest), or whose total bags exceed NUM_BAGS, or    *)
(* (strict mode) whose terminal values are not all identical.               *)
C4_RejectsInvalid ==
    (/\ pc = "validated"
     /\ \/ ~SizeOk(members)
        \/ ~WindowsIntersect(members)
        \/ TotalBags(members) > NUM_BAGS
        \/ (Strict /\ ~SameTerminal(members))) => valid = FALSE

\* the pair with bags 9 + 2, same window and terminal, has been rejected
C4_Witness ==
    /\ pc = "validated"
    /\ Len(members) = 2
    /\ TotalBags(<<members[1]>>) = 9
    /\ TotalBags(<<members[2]>>) = 2
    /\ SameTerminal(members)
    /\ Earliest(members[1]) = Earliest(members[2])
    /\ Latest(members[1]) = Latest(members[2])
    /\ valid = FALSE

(* C5: _is_valid_group accepts every group of 2 to 4 riders with            *)
(* max(earliest) < min(latest), total bags at most NUM_BAGS and (strict     *)
(* mode) identical terminals, however short the intersection.               *)
C5_AcceptsValid ==
    (pc = "validated" /\ HardValid(members)) => valid = TRUE

\* the <<entry, position>> places of a dict of rider lists
Slots(d) == {<<e, k>> \in (1..Len(d)) \X (1..MaxInput + 1) : k <= Len(d[e].riders)}

\* d holds every rider of rs once, by direction and airport, in rs's order
ExactPartition(d, rs) ==
    /\ \A x \in 1..Len(rs) :
          Cardinality({sl \in Slots(d) : d[sl[1]].riders[sl[2]] = rs[x]}) = 1
    /\ \A sl \in Slots(d) : InList(d[sl[1]].riders[sl[2]], rs)
    /\ \A e \in 1..Len(d) : d[e].riders # <<>>
    /\ \A s1 \in Slots(d) : \A s2 \in Slots(d) :
          LET r1 == d[s1[1]].riders[s1[2]]
              r2 == d[s2[1]].riders[s2[2]]
          IN  (s1[1] = s2[1]) <=>
                  (r1.to_airport = r2.to_airport /\ r1.airport = r2.airport)
    /\ \A e \in 1..Len(d) :
          d[e].riders = SelectSeq(rs, LAMBDA r : InList(r, d[e].riders))

(* C2: make_buckets and partition_riders put every input rider in exactly   *)
(* one bucket, two riders in the same bucket exactly when they agree on     *)
(* direction and airport, add no rider, and keep the input order inside     *)
(* each bucket.                                                             *)
C2_BucketsPartitionInput ==
    /\ pc = "made" => ExactPartition(buckets, riders)
    /\ pc = "partitioned" => ExactPartition(partition, riders)

\* make_buckets has split riders of both directions into several buckets,
\* one of them holding two riders
C2_Witness ==
    /\ pc = "made"
    /\ Len(buckets) >= 2
    /\ \E e \in 1..Len(buckets) : Len(buckets[e].riders) >= 2
    /\ \E x \in 1..Len(riders) : \E y \in 1..Len(riders) :
          riders[x].to_airport # riders[y].to_airport
              /\ riders[x].airport = riders[y].airport

-----------------------------------------------------------------------------
(* The committers: src/matching2.py _commit_groups, src/Algorithm/main.py   *)
(* and src/RuleBased2/main3.py _write_matches_db.  A group to persist is    *)
(* the list of its flight ids.  The sink (the Supabase client, the          *)
(* Repository) is outside the source; what it does with the calls made for  *)
(* one group is an input:                                                   *)
(*   "none"            every call succeeds                                  *)
(*   "no_data"         the Rides insert returns no row                      *)
(*   "no_ride_id"      the Rides insert returns a row without a ride id     *)
(*   "create_raises"   the Rides insert raises                              *)
(*   "members_raises"  the Matches insert raises                            *)
(*   "mark_raises"     the Flights update raises                            *)

\* most groups handed to a committer
MaxGroups == 3

Faults ==
    {"none", "no_data", "no_ride_id", "create_raises", "members_raises", "mark_raises"}

\* the tables of the sink and what the committer returns or raises
SinkOf(rs, ms, fl, n, ex) ==
    [rides |-> rs, match_rows |-> ms, matched_flights |-> fl,
     rides_created |-> n, raised |-> ex]

\* sb.table("Rides").insert(...).execute(): the new row's ride id is its number
InsertRide(st) == [st EXCEPT !.rides = Append(@, Len(@) + 1)]

\* sb.table("Matches").insert(rows).execute(): one row per member
InsertMatches(st, ride_id, g) ==
    [st EXCEPT !.match_rows =
        @ \o [k \in 1..Len(g) |-> [ride_id |-> ride_id, flight_id |-> g[k]]]]

\* sb.table("Flights").update({"matched": True}).in_("flight_id", flight_ids)
UpdateFlights(st, g) == [st EXCEPT !.matched_flights = @ \cup Range(g)]

Raise(st, ex) == [st EXCEPT !.raised = ex]

\* the loop `for m in matches` of _write_matches_db from position k on;
\* checks_ride_id: the test `"ride_id" not in ride_resp.data[0]` is made
\* (src/Algorithm/main.py) or not (src/RuleBased2/main3.py)
RECURSIVE WriteFrom(_, _, _, _, _)
WriteFrom(ms, fs, k, st, checks_ride_id) ==
    IF k > Len(ms) THEN st
    ELSE IF fs[k] = "create_raises" THEN Raise(st, "APIError")
    ELSE IF fs[k] = "no_data" THEN WriteFrom(ms, fs, k + 1, st, checks_ride_id)
    ELSE IF fs[k] = "no_ride_id"
         THEN IF checks_ride_id
              THEN WriteFrom(ms, fs, k + 1, InsertRide(st), checks_ride_id)
              ELSE Raise(InsertRide(st), "KeyError")
    ELSE LET created == InsertRide(st)
             ride_id == Len(created.rides)
         IN  IF fs[k] = "members_raises" THEN Raise(created, "APIError")
             ELSE LET added == InsertMatches(created, ride_id, ms[k])
                  IN  IF fs[k] = "mark_raises" THEN Raise(added, "APIError")
                      ELSE WriteFrom(ms, fs, k + 1, UpdateFlights(added, ms[k]),
                                     checks_ride_id)

\* a variant of the loop that marks the flights before it adds the members
RECURSIVE CommitFromMarkFirst(_, _, _, _)
CommitFromMarkFirst(gs, fs, k, st) ==
    IF k > Len(gs) THEN st
    ELSE IF fs[k] = "create_raises" THEN CommitFromMarkFirst(gs, fs, k + 1, st)
    ELSE LET created == IF fs[k] = "no_data" THEN st ELSE InsertRide(st)
             ride_id == IF fs[k] \in {"no_data", "no_ride_id"}
                        THEN 0 ELSE Len(created.rides)
         IN  IF fs[k] = "mark_raises" THEN CommitFromMarkFirst(gs, fs, k + 1, created)
             ELSE LET marked == UpdateFlights(created, gs[k])
                  IN  IF fs[k] = "members_raises"
                      THEN CommitFromMarkFirst(gs, fs, k + 1, marked)
                      ELSE CommitFromMarkFirst(gs, fs, k + 1,
                               [InsertMatches(marked, ride_id, gs[k])
                                   EXCEPT !.rides_created = @ + 1])

\* the loop `for group in groups` of _commit_groups from position k on; a
\* create_ride that returns no id hands None (0) on to add_members
RECURSIVE CommitFrom(_, _, _, _)
CommitFrom(gs, fs, k, st) ==
    IF k > Len(gs) THEN st
    ELSE IF fs[k] = "create_raises" THEN CommitFrom(gs, fs, k + 1, st)
    ELSE LET created == IF fs[k] = "no_data" THEN st ELSE InsertRide(st)
             ride_id == IF fs[k] \in {"no_data", "no_ride_id"}
                        THEN 0 ELSE Len(created.rides)
         IN  IF fs[k] = "members_raises" THEN CommitFrom(gs, fs, k + 1, created)
             ELSE LET added == InsertMatches(created, ride_id, gs[k])
                  IN  IF fs[k] = "mark_raises"
                      THEN CommitFrom(gs, fs, k + 1, added)
                      ELSE CommitFrom(gs, fs, k + 1,
                               [UpdateFlights(added, gs[k])
                                   EXCEPT !.rides_created = @ + 1])

EmptySink == SinkOf(<<>>, <<>>, {}, 0, "")

_commit_groups(gs, fs) == CommitFrom(gs, fs, 1, EmptySink)

\* src/Algorithm/main.py
_write_matches_db(ms, fs) ==
    IF ms = <<>> THEN EmptySink ELSE WriteFrom(ms, fs, 1, EmptySink, TRUE)

\* src/RuleBased2/main3.py
_write_matches_db3(ms, fs) ==
    IF ms = <<>> THEN EmptySink ELSE WriteFrom(ms, fs, 1, EmptySink, FALSE)

-----------------------------------------------------------------------------
(* Specification SpecCommit: one committer on one list of groups *)

InitCommit ==
    /\ pc = "ready"
    /\ \E n \in 0..MaxGroups : \E f \in [1..n -> Faults] :
          /\ groups = [k \in 1..n |-> <<2 * k - 1, 2 * k>>]
          /\ faults = f
    /\ rides = <<>>
    /\ match_rows = <<>>
    /\ matched_flights = {}
    /\ rides_created = 0
    /\ raised = ""
    /\ IdleBucket /\ IdleValid /\ IdlePart /\ IdleRun /\ IdleCycle
    /\ IdleLocationCache /\ IdleFilter /\ IdleAux

Committed(st) ==
    /\ rides' = st.rides
    /\ match_rows' = st.match_rows
    /\ matched_flights' = st.matched_flights
    /\ rides_created' = st.rides_created
    /\ raised' = st.raised
    /\ UNCHANGED <<groups, faults, bucketVars, validVars, partVars, runVars, cycleVars,
                   cacheVars, filterVars, auxVars>>

CommitGroups ==
    /\ pc = "ready"
    /\ Committed(_commit_groups(groups, faults))
    /\ pc' = "committed"

WriteMatchesDb ==
    /\ pc = "ready"
    /\ Committed(_write_matches_db(groups, faults))
    /\ pc' = "written"

WriteMatchesDb3 ==
    /\ pc = "ready"
    /\ Committed(_write_matches_db3(groups, faults))
    /\ pc' = "written3"

NextCommit == CommitGroups \/ WriteMatchesDb \/ WriteMatchesDb3

SpecCommit == InitCommit /\ [][NextCommit]_vars

\* the group at position k has its ride, its Matches rows and its flights marked
FullyCommitted(k) ==
    /\ \E r \in Range(rides) :
          {row.flight_id : row \in {x \in Range(match_rows) : x.ride_id = r}}
              = Range(groups[k])
    /\ Range(groups[k]) \subseteq matched_flights

(* C11: after a committer has run, every group whose own sink calls succeed *)
(* is fully committed (ride, member rows, flights marked), whatever the     *)
(* sink did (no data, or an exception) for the groups before it.            *)
C11_ContinueOnError ==
    pc \in {"committed", "written", "written3"} =>
        \A k \in 1..Len(groups) : faults[k] = "none" => FullyCommitted(k)

\* the same for _commit_groups alone
C11_CommitGroupsContinues ==
    pc = "committed" =>
        \A k \in 1..Len(groups) : faults[k] = "none" => FullyCommitted(k)

-----------------------------------------------------------------------------
(* The pipeline: src/RuleBased2/rider_data.py fetch_riders,                 *)
(* src/RuleBased/buckets.py prepare_riders, src/Algorithm/main.py run.      *)
(* A row of Flights holds Optional times: <<>> for a null column, <<t>> for *)
(* the time t.  str(None) is "None", written <<"None">>: a time field of a  *)
(* rider that datetime.fromisoformat cannot parse.                          *)

\* most rows the Flights query returns
MaxRows == 4

\* str(f.get("earliest_time"))
StrOfTime(t) == IF t = <<>> THEN <<"None">> ELSE t[1]

\* a variant that takes a missing terminal for terminal 1
normalize_terminal_default_1(raw) == IF raw = <<>> THEN "1" ELSE raw[1]

\* normalize_terminal of rider_data.py on None and on a string of digits
normalize_terminal(raw) == IF raw = <<>> THEN "UNKNOWN" ELSE raw[1]

\* normalize_airport on an upper-case code without blanks
normalize_airport(raw) == IF raw = <<>> THEN "UNKNOWN" ELSE raw[1]

\* the RiderLite fetch_riders builds of the row f
RiderLiteOf(f) ==
    [flight_id     |-> f.flight_id,
     to_airport    |-> f.to_airport,
     airport       |-> normalize_airport(f.airport),
     date          |-> f.date,
     earliest_time |-> StrOfTime(f.earliest_time),
     latest_time   |-> StrOfTime(f.latest_time),
     terminal      |-> <<normalize_terminal(f.terminal)>>,
     bags_no       |-> f.bag_no,
     bags_no_large |-> f.bag_no_large]

\* the loop `for f in flights` of fetch_riders: rows whose user has no school
\* are skipped, every other row becomes a rider
RECURSIVE fetch_riders(_)
fetch_riders(fs) ==
    IF fs = <<>> THEN <<>>
    ELSE (IF fs[1].school = <<>> THEN <<>> ELSE <<RiderLiteOf(fs[1])>>)
             \o fetch_riders(Tail(fs))

\* _normalize_terminal of buckets.py on None and on a string of digits
_normalize_terminal(raw) == IF raw = <<>> THEN <<>> ELSE <<"T" \o raw[1]>>

\* _attach_local_tz(d, t, tzinfo) reads t.hour: AttributeError on None
AttachRaises(f) == f.earliest_time = <<>> \/ f.latest_time = <<>>

\* the RiderLite dict prepare_riders builds of the row f
PreparedOf(f) ==
    [flight_id   |-> f.flight_id,
     to_airport  |-> f.to_airport,
     airport     |-> f.airport[1],
     terminal    |-> _normalize_terminal(f.terminal),
     earliest_ts |-> ToSeconds(f.date, f.earliest_time[1]),
     latest_ts   |-> ToSeconds(f.date, f.latest_time[1])]

\* prepare_riders(rows, tzinfo=...): the riders, or the exception of the
\* first row it cannot convert
RECURSIVE PrepareFrom(_, _, _)
PrepareFrom(fs, k, acc) ==
    IF k > Len(fs) THEN [riders |-> acc, raised |-> ""]
    ELSE IF AttachRaises(fs[k]) THEN [riders |-> <<>>, raised |-> "AttributeError"]
    ELSE PrepareFrom(fs, k + 1, Append(acc, PreparedOf(fs[k])))

prepare_riders(fs) == PrepareFrom(fs, 1, <<>>)

\* datetime.fromisoformat(f"{r.date}T{r.earliest_time}") succeeds
Parses(r) == Len(r.earliest_time) = 3 /\ Len(r.latest_time) = 3

\* match_bucket raises ValueError: with two riders or more every rider is in
\* a scored pair and _interval parses both of its time fields
MatchRaises(rs) == Len(rs) >= 2 /\ \E k \in 1..Len(rs) : ~Parses(rs[k])

\* the loop `for name, riders_in_bucket in buckets.items()` of run from
\* entry e on
RECURSIVE RunFrom(_, _, _, _)
RunFrom(bs, e, ms, ls) ==
    IF e > Len(bs) THEN [all_matches |-> ms, all_unmatched |-> ls, raised |-> ""]
    ELSE IF MatchRaises(bs[e].riders)
         THEN [all_matches |-> ms, all_unmatched |-> ls, raised |-> "ValueError"]
         ELSE LET res == match_bucket(bs[e].riders, bs[e].key)
              IN  RunFrom(bs, e + 1, ms \o res.matches, ls \o res.leftovers)

\* the flight ids of the groups handed to the writer
FlightIds(ms) ==
    [a \in 1..Len(ms) |-> [k \in 1..Len(ms[a].riders) |-> ms[a].riders[k].flight_id]]

\* run(): what it leaves when it returns or raises
run(fs) ==
    LET rs == fetch_riders(fs)
    IN  IF rs = <<>>
        THEN [fetched |-> rs, all_matches |-> <<>>, all_unmatched |-> <<>>,
              written |-> <<>>, raised |-> ""]
        ELSE LET Left(res) ==
                     [fetched       |-> rs,
                      all_matches   |-> res.all_matches,
                      all_unmatched |-> res.all_unmatched,
                      written       |-> IF res.raised = "" THEN FlightIds(res.all_matches)
                                        ELSE <<>>,
                      raised        |-> res.raised]
             IN  Left(RunFrom(make_buckets(rs), 1, <<>>, <<>>))

-----------------------------------------------------------------------------
(* Specification SpecRun: fetch_riders, prepare_riders or run on the rows   *)
(* of one Flights query                                                     *)

\* <<earliest_time, latest_time>> of a row: two windows that overlap, a
\* window whose earliest time is after its latest time, a missing window
RowWindows ==
    { << <<<<9, 0, 0>>>>,  <<<<10, 0, 0>>>> >>,
      << <<<<9, 30, 0>>>>, <<<<10, 30, 0>>>> >>,
      << <<<<10, 0, 0>>>>, <<<<9, 0, 0>>>> >>,
      << <<>>, <<>> >> }

\* <<school, airport, window>>
RowChoices ==
    ({<<"POMONA">>} \X Airports \X RowWindows)
        \cup {<< <<>>, "LAX", << <<<<9, 0, 0>>>>, <<<<10, 0, 0>>>> >> >>}

RowOf(id, c) ==
    [flight_id     |-> id,
     school        |-> c[1],
     to_airport    |-> TRUE,
     airport       |-> <<c[2]>>,
     date          |-> 1,
     earliest_time |-> c[3][1],
     latest_time   |-> c[3][2],
     terminal      |-> <<"1">>,
     bag_no        |-> <<1>>,
     bag_no_large  |-> <<>>]

\* .order("date").order("earliest_time"): ascending, nulls last
OrderKey(f) ==
    IF f.earliest_time = <<>> THEN 86400 * (f.date + 1)
    ELSE ToSeconds(f.date, f.earliest_time[1])

QueryOrdered(fs) == \A k \in 1..(Len(fs) - 1) : OrderKey(fs[k]) <= OrderKey(fs[k + 1])

InitRun ==
    /\ pc = "ready"
    /\ \E n \in 0..MaxRows : \E f \in [1..n -> RowChoices] :
          /\ rows = [k \in 1..n |-> RowOf(k, f[k])]
          /\ QueryOrdered(rows)
    /\ fetched = <<>>
    /\ prepared = <<>>
    /\ all_matches = <<>>
    /\ all_unmatched = <<>>
    /\ written = <<>>
    /\ raised = ""
    /\ IdleBucket /\ IdleValid /\ IdlePart /\ IdleCommit /\ IdleCycle
    /\ IdleLocationCache /\ IdleFilter /\ IdleAux

FetchRiders ==
    /\ pc = "ready"
    /\ fetched' = fetch_riders(rows)
    /\ pc' = "fetched"
    /\ UNCHANGED <<rows, prepared, all_matches, all_unmatched, written, raised,
                   bucketVars, validVars, partVars, commitVars, cycleVars,
                   cacheVars, filterVars, auxVars>>

PrepareRiders ==
    /\ pc = "ready"
    /\ LET res == prepare_riders(rows)
       IN  /\ prepared' = res.riders
           /\ raised' = res.raised
    /\ pc' = "prepared"
    /\ UNCHANGED <<rows, fetched, all_matches, all_unmatched, written,
                   bucketVars, validVars, partVars, commitVars, cycleVars,
                   cacheVars, filterVars, auxVars>>

Run ==
    /\ pc = "ready"
    /\ \E res \in {run(rows)} :
          /\ fetched' = res.fetched
          /\ all_matches' = res.all_matches
          /\ all_unmatched' = res.all_unmatched
          /\ written' = res.written
          /\ raised' = res.raised
    /\ pc' = "ran"
    /\ UNCHANGED <<rows, prepared, bucketVars, validVars, partVars, commitVars, cycleVars,
                   cacheVars, filterVars, auxVars>>

NextRun == FetchRiders \/ PrepareRiders \/ Run

SpecRun == InitRun /\ [][NextRun]_vars

\* the riders run() puts in one bucket: the fetched riders of one airport
\* (every row of this specification is outbound)
BucketOfAirport(a) == SelectSeq(fetched, LAMBDA r : r.airport = a)

\* a rider whose time fields cannot be parsed sits in a bucket of two or more
Unparseable(rs) == Len(rs) >= 2 /\ \E k \in 1..Len(rs) : Len(rs[k].earliest_time) # 3

(* C12: run() raises nothing; a bucket whose matching fails contributes no  *)
(* group and all its riders as leftovers, and the groups of every other     *)
(* bucket are written.                                                      *)
C12_BucketFailureContained ==
    pc = "ran" =>
        /\ raised = ""
        /\ \A a \in Airports :
              LET b == BucketOfAirport(a)
              IN  IF Unparseable(b)
                  THEN /\ \A g \in Range(written) : Range(g) \cap {r.flight_id : r \in Range(b)} = {}
                       /\ Range(b) \subseteq Range(all_unmatched)
                  ELSE Range(FlightIds(match_bucket(b, "TO " \o a).matches))
                           \subseteq Range(written)

\* the window of a rider record: <<earliest, latest>> in seconds, <<>> when
\* the record has no window that can be read
WindowOf(r) ==
    IF "earliest_ts" \in DOMAIN r THEN <<r.earliest_ts, r.latest_ts>>
    ELSE IF Len(r.earliest_time) = 3 /\ Len(r.latest_time) = 3
         THEN <<ToSeconds(r.date, r.earliest_time), ToSeconds(r.date, r.latest_time)>>
         ELSE <<>>

(* C14: every rider record fetch_riders or prepare_riders hands on has a    *)
(* time window with earliest <= latest; a row with earliest after latest,   *)
(* or without a window, is rejected and becomes no rider.                   *)
C14_EarliestNotAfterLatest ==
    \A r \in Range(fetched) \cup Range(prepared) :
        WindowOf(r) # <<>> /\ WindowOf(r)[1] <= WindowOf(r)[2]

-----------------------------------------------------------------------------
(* src/matching2.py: MatchingEngine2.  Methods whose names ruleMatching.py  *)
(* has too carry a 2.  A datetime is a count of seconds; coordinates are in *)
(* units of one grid cell along a line, so that to_grid_id gives the cell   *)
(* and the h3 ring of radius GRID_KRING around a cell is the two cells next *)
(* to it.  A score is the source's float score times 600: the seconds of    *)
(* the intersection times 10, W_SPATIAL (0.8) times the mean of the         *)
(* pairwise 1.0 / 0.6 / 0.1 as 48 * (sum of tenths) / pairs, and -0.5 as    *)
(* -300.                                                                    *)

\* most flights a matching cycle fetches
MaxFlights == 3

\* config.TIME_SLOT_MIN and config.GRID_KRING of src/RuleBased/config.py
TIME_SLOT_MIN == 15
GRID_KRING == 1

_normalize_terminal2(raw) == IF raw = <<>> THEN <<>> ELSE <<"T" \o raw[1]>>

\* strftime("%H:%M") of the slot, as <<hour, minute>>
_time_slot(ts) ==
    LET t == FromSeconds(ts)
    IN  <<t[2], (t[3] \div TIME_SLOT_MIN) * TIME_SLOT_MIN>>

to_grid_id(lat, lon) == <<lat, lon>>

Anchor(f) == IF f.to_airport THEN f.school ELSE f.airport

\* _to_rider raises ValueError for the flight f under the resolver answers cs
NoCoordinates(f, cs) == cs[Anchor(f)] = <<>>

_to_rider(f, cs) ==
    LET earliest == ToSeconds(f.date, f.earliest_time)
        latest   == ToSeconds(f.date, f.latest_time)
        latlon   == cs[Anchor(f)]
    IN  [flight_id       |-> f.flight_id,
         user_id         |-> f.user_id,
         airport         |-> f.airport,
         to_airport      |-> f.to_airport,
         school          |-> f.school,
         earliest_ts     |-> earliest,
         latest_ts       |-> latest,
         time_slot_start |-> _time_slot(earliest),
         grid_id         |-> to_grid_id(latlon[1], latlon[2]),
         terminal        |-> _normalize_terminal2(f.terminal)]

_is_valid_group2(ms) ==
    IF Len(ms) < 2 \/ Len(ms) > 4 THEN FALSE
    ELSE MaxOf([k \in 1..Len(ms) |-> ms[k].earliest_ts])
            < MinOf([k \in 1..Len(ms) |-> ms[k].latest_ts])

\* h3.grid_ring(a.grid_id, GRID_KRING) holds b.grid_id
_spatial_neighbor(a, b) ==
    IF GRID_KRING = 0 THEN a.grid_id = b.grid_id
    ELSE /\ a.grid_id[2] = b.grid_id[2]
         /\ (a.grid_id[1] - b.grid_id[1] = GRID_KRING
                \/ b.grid_id[1] - a.grid_id[1] = GRID_KRING)

\* ten times the spatial score of one pair
SpatialTenths(a, b) ==
    IF a.grid_id = b.grid_id THEN 10
    ELSE IF _spatial_neighbor(a, b) THEN 6 ELSE 1

RECURSIVE SumTenths(_, _)
SumTenths(ms, ij) ==
    IF ij = <<>> THEN 0
    ELSE SpatialTenths(ms[ij[1][1]], ms[ij[1][2]]) + SumTenths(ms, Tail(ij))

_score_group2(ms, validate) ==
    IF validate /\ ~_is_valid_group2(ms) THEN NegInf
    ELSE LET start == MaxOf([k \in 1..Len(ms) |-> ms[k].earliest_ts])
             end   == MinOf([k \in 1..Len(ms) |-> ms[k].latest_ts])
             ij    == PairsFrom(1, 2, Len(ms))
             spatial == IF ij = <<>> THEN 0 ELSE (48 * SumTenths(ms, ij)) \div Len(ij)
             terminals == {ms[k].terminal : k \in 1..Len(ms)} \ {<<>>}
             terminal_bonus == IF TERMINAL_MODE = "strict" /\ Cardinality(terminals) > 1
                               THEN -300 ELSE 0
         IN  10 * (end - start) + spatial + terminal_bonus

\* one pass of `for candidate in candidates` of _expand_group: the position
\* of `best` (0 for None)
RECURSIVE BestFrom2(_, _, _, _, _)
BestFrom2(ms, candidates, k, best, best_score) ==
    IF k > Len(candidates) THEN best
    ELSE IF \E l \in 1..Len(ms) : ms[l].user_id = candidates[k].user_id
         THEN BestFrom2(ms, candidates, k + 1, best, best_score)
         ELSE LET score == _score_group2(ms \o <<candidates[k]>>, TRUE)
              IN  IF score > best_score
                  THEN BestFrom2(ms, candidates, k + 1, k, score)
                  ELSE BestFrom2(ms, candidates, k + 1, best, best_score)

RECURSIVE _expand_group2(_, _)
_expand_group2(ms, candidates) ==
    IF ~(Len(ms) < 4) THEN ms
    ELSE LET best == BestFrom2(ms, candidates, 1, 0, NegInf)
         IN  IF best = 0 THEN ms
             ELSE _expand_group2(ms \o <<candidates[best]>>, candidates)

RECURSIVE ScoredFrom2(_, _, _)
ScoredFrom2(rs, ij, k) ==
    IF k > Len(ij) THEN <<>>
    ELSE LET score == _score_group2(<<rs[ij[k][1]], rs[ij[k][2]]>>, TRUE)
         IN  (IF score > NegInf THEN <<<<ij[k][1], ij[k][2], score>>>> ELSE <<>>)
               \o ScoredFrom2(rs, ij, k + 1)

\* the group dict of one selected pair; planned_departure_ts, the midpoint
\* start + (end - start) / 2, is in half seconds
GroupOfPair(rs, p, bucket_key) ==
    LET DictOf(expanded) ==
            LET start == MaxOf([k \in 1..Len(expanded) |-> expanded[k].earliest_ts])
                end   == MinOf([k \in 1..Len(expanded) |-> expanded[k].latest_ts])
            IN  [airport              |-> expanded[1].airport,
                 to_airport           |-> expanded[1].to_airport,
                 member_flights       |-> [k \in 1..Len(expanded) |-> expanded[k].flight_id],
                 planned_departure_ts |-> 2 * start + (end - start),
                 bucket_key           |-> bucket_key]
    IN  DictOf(_expand_group2(<<rs[p[1]], rs[p[2]]>>, rs))

\* lines 146-155 are the sort and the greedy selection of _build_scored_pairs
\* and _select_pairs
_match_bucket(rs, bucket_key) ==
    IF Len(rs) < 2 THEN <<>>
    ELSE LET scored   == SortByScoreDesc(ScoredFrom2(rs, PairsFrom(1, 2, Len(rs)), 1))
             selected == SelectFrom(scored, {}, 1)
         IN  [k \in 1..Len(selected) |-> GroupOfPair(rs, selected[k], bucket_key)]

RECURSIVE BucketFrom2(_, _, _)
BucketFrom2(rs, k, d) ==
    IF k > Len(rs) THEN d
    ELSE BucketFrom2(rs, k + 1,
             DictAppend(d, <<rs[k].to_airport, rs[k].airport, rs[k].time_slot_start>>,
                        rs[k]))

RECURSIVE MatchAllFrom(_, _)
MatchAllFrom(d, e) ==
    IF e > Len(d) THEN <<>>
    ELSE (IF Len(d[e].riders) < 2 THEN <<>> ELSE _match_bucket(d[e].riders, d[e].key))
             \o MatchAllFrom(d, e + 1)

_bucket_and_match(rs) == MatchAllFrom(BucketFrom2(rs, 1, <<>>), 1)

\* run_cycle: what it leaves when it returns or raises; the repository takes
\* every call of _commit_groups
run_cycle(fs, cs, dry) ==
    IF fs = <<>> THEN [groups |-> <<>>, sink |-> EmptySink, raised |-> ""]
    ELSE IF \E k \in 1..Len(fs) : NoCoordinates(fs[k], cs)
         THEN [groups |-> <<>>, sink |-> EmptySink, raised |-> "ValueError"]
         ELSE LET Returned(gs) ==
                      [groups |-> gs,
                       sink   |-> IF dry THEN [EmptySink EXCEPT !.rides_created = Len(gs)]
                                  ELSE _commit_groups(
                                           [k \in 1..Len(gs) |-> gs[k].member_flights],
                                           [k \in 1..Len(gs) |-> "none"]),
                       raised |-> ""]
              IN  Returned(_bucket_and_match([k \in 1..Len(fs) |-> _to_rider(fs[k], cs)]))

-----------------------------------------------------------------------------
(* Specification SpecCycle: one matching cycle of MatchingEngine2 *)

Schools == {"POMONA", "CMC"}

\* the answers of the location resolver: no coordinates, or a cell
Coordinates == {<<>>, <<0, 0>>, <<1, 0>>}

\* <<earliest_time, latest_time>> of a flight, all in the slot 09:00
FlightWindows ==
    { << <<9, 0, 0>>, <<10, 0, 0>> >>,
      << <<9, 10, 0>>, <<9, 40, 0>> >> }

FlightOf(id, school, w) ==
    [flight_id     |-> id,
     user_id       |-> id,
     airport       |-> "LAX",
     to_airport    |-> TRUE,
     school        |-> school,
     date          |-> 1,
     earliest_time |-> w[1],
     latest_time   |-> w[2],
     terminal      |-> <<"1">>]

InitCycle ==
    /\ pc = "ready"
    /\ \E n \in 0..MaxFlights : \E f \in [1..n -> Schools \X FlightWindows] :
          flights = [k \in 1..n |-> FlightOf(k, f[k][1], f[k][2])]
    /\ coords \in [Schools -> Coordinates]
    /\ dry_run \in BOOLEAN
    /\ cycle_groups = <<>>
    /\ rides = <<>>
    /\ match_rows = <<>>
    /\ matched_flights = {}
    /\ rides_created = 0
    /\ groups = <<>>
    /\ faults = <<>>
    /\ raised = ""
    /\ IdleBucket /\ IdleValid /\ IdlePart /\ IdleRun /\ IdleLocationCache
    /\ IdleFilter /\ IdleAux

RunCycle ==
    /\ pc = "ready"
    /\ \E res \in {run_cycle(flights, coords, dry_run)} :
          /\ cycle_groups' = res.groups
          /\ rides' = res.sink.rides
          /\ match_rows' = res.sink.match_rows
          /\ matched_flights' = res.sink.matched_flights
          /\ rides_created' = res.sink.rides_created
          /\ raised' = res.raised
    /\ pc' = "cycled"
    /\ UNCHANGED <<flights, coords, dry_run, groups, faults,
                   bucketVars, validVars, partVars, runVars, cacheVars, filterVars, auxVars>>

NextCycle == RunCycle

SpecCycle == InitCycle /\ [][NextCycle]_vars

\* the flights of the cycle whose anchor the resolver has coordinates for
Resolved == SelectSeq(flights, LAMBDA f : coords[Anchor(f)] # <<>>)

(* C13: a cycle in which the resolver has no coordinates for one flight's   *)
(* anchor raises nothing, and the flights whose anchors resolve are         *)
(* converted, bucketed and matched as if they were the whole cycle.         *)
C13_ResolutionFailureContained ==
    pc = "cycled" =>
        /\ raised = ""
        /\ cycle_groups
             = _bucket_and_match([k \in 1..Len(Resolved) |-> _to_rider(Resolved[k], coords)])

-----------------------------------------------------------------------------
(* src/RuleBased/location_cache.py: LocationCache.  self.cache is a dict:   *)
(* the sequence of its entries in insertion order.  The cache file is the   *)
(* sequence of its CSV rows.  A thread inside _save_cache holds its own     *)
(* file object: an offset into the file and a buffer of rows written but    *)
(* not yet flushed; open(CACHE_FILE, mode='w') truncates the file, a flush  *)
(* writes the buffer at the offset.  A dict iterator raises RuntimeError    *)
(* when the dict has changed size since the iteration began.                *)

Threads == {1, 2}

\* str.lower() and str.upper() on the names and types of the model
Lower(s) == IF s = "Pomona" THEN "pomona" ELSE s
Upper(s) == IF s = "school" THEN "SCHOOL" ELSE s

\* truth value of a float: `if lat and lng`
Truthy(x) == x # 0

KeyOf(c) == Lower(c.location_name)

HasKey(d, key) == \E e \in 1..Len(d) : d[e].key = key

EntryOf(d, key) == d[CHOOSE e \in 1..Len(d) : d[e].key = key]

\* self.cache[key] = (cache_type, lat, lng)
DictSet(d, key, v) ==
    IF HasKey(d, key)
    THEN [e \in 1..Len(d) |-> IF d[e].key = key THEN [key |-> key, value |-> v] ELSE d[e]]
    ELSE Append(d, [key |-> key, value |-> v])

\* writer.writerow([location_type, loc_name, lat, lng])
RowOfEntry(e) == <<e.value[1], e.key, e.value[2], e.value[3]>>

\* the file after the rows b are written at offset off; a gap left by a
\* truncation is filled with empty rows
WriteAt(f, off, b) ==
    [k \in 1..Max2(Len(f), off + Len(b)) |->
        IF k > off /\ k <= off + Len(b) THEN b[k - off]
        ELSE IF k <= Len(f) THEN f[k] ELSE <<>>]

\* _load_cache: the rows of four fields, keyed by loc_name.lower()
RECURSIVE LoadFrom(_, _)
LoadFrom(f, d) ==
    IF f = <<>> THEN d
    ELSE LoadFrom(Tail(f),
             IF Len(f[1]) = 4
             THEN DictSet(d, Lower(f[1][2]), <<f[1][1], f[1][3], f[1][4]>>)
             ELSE d)

_load_cache(f) == LoadFrom(f, <<>>)

-----------------------------------------------------------------------------
(* Specification SpecCache: two threads call get_coordinates with the same  *)
(* name on one LocationCache                                                *)

\* the cache file found at construction: empty, or one airport
CacheFiles == { <<>>, << <<"AIRPORT", "lax", 33, -118>> >> }

\* what _fetch_from_google returns for the name, each time
ResolverAnswers == { <<34, -117>>, <<0, -117>> }

CallOf(location_type) ==
    [pc            |-> "check",
     location_name |-> "Pomona",
     location_type |-> location_type,
     latlng        |-> <<>>,
     it            |-> 0,
     size          |-> 0,
     off           |-> 0,
     buf           |-> <<>>,
     ret           |-> <<>>,
     raised        |-> ""]

InitCache ==
    /\ pc = "ready"
    /\ file \in CacheFiles
    /\ loaded = _load_cache(file)
    /\ cache = loaded
    /\ resolver \in ResolverAnswers
    /\ \E ty \in [Threads -> {<<>>, <<"school">>}] :
          calls = [t \in Threads |-> CallOf(ty[t])]
    /\ raised = ""
    /\ IdleBucket /\ IdleValid /\ IdlePart /\ IdleCommit /\ IdleRun /\ IdleCycle
    /\ IdleFilter /\ IdleAux

CacheStep(t, c) ==
    /\ calls' = [calls EXCEPT ![t] = c]
    /\ UNCHANGED <<pc, raised, loaded, resolver, bucketVars, validVars, partVars,
                   commitVars, runVars, cycleVars, filterVars, auxVars>>

\* `if key in self.cache`: return the cached pair, or go on to the fetch
Check(t) ==
    /\ calls[t].pc = "check"
    /\ IF HasKey(cache, KeyOf(calls[t]))
       THEN LET v == EntryOf(cache, KeyOf(calls[t])).value
            IN  CacheStep(t, [calls[t] EXCEPT !.pc = "done", !.ret = <<v[2], v[3]>>])
       ELSE CacheStep(t, [calls[t] EXCEPT !.pc = "fetch"])
    /\ UNCHANGED <<cache, file>>

\* lat, lng = self._fetch_from_google(location_name); `if lat and lng`
Fetch(t) ==
    /\ calls[t].pc = "fetch"
    /\ IF Truthy(resolver[1]) /\ Truthy(resolver[2])
       THEN CacheStep(t, [calls[t] EXCEPT !.pc = "store", !.latlng = resolver])
       ELSE CacheStep(t, [calls[t] EXCEPT !.pc = "done", !.latlng = resolver,
                                          !.ret = resolver])
    /\ UNCHANGED <<cache, file>>

\* self.cache[key] = (cache_type, lat, lng)
Store(t) ==
    /\ calls[t].pc = "store"
    /\ LET c == calls[t]
           cache_type == IF c.location_type # <<>> THEN Upper(c.location_type[1])
                         ELSE "LOCATION"
       IN  cache' = DictSet(cache, KeyOf(c), <<cache_type, c.latlng[1], c.latlng[2]>>)
    /\ CacheStep(t, [calls[t] EXCEPT !.pc = "open"])
    /\ UNCHANGED file

\* _save_cache: open(CACHE_FILE, mode='w')
Open(t) ==
    /\ calls[t].pc = "open"
    /\ file' = <<>>
    /\ CacheStep(t, [calls[t] EXCEPT !.pc = "iterate", !.it = 0, !.off = 0,
                                     !.buf = <<>>])
    /\ UNCHANGED cache

\* _save_cache: one step of `for loc_name, cache_data in self.cache.items()`
\* with its writerow; the with block flushes and closes the file when the
\* iterator raises
WriteRow(t) ==
    /\ calls[t].pc = "iterate"
    /\ LET c == calls[t]
           size == IF c.it = 0 THEN Len(cache) ELSE c.size
       IN  IF Len(cache) # size
           THEN /\ file' = WriteAt(file, c.off, c.buf)
                /\ CacheStep(t, [c EXCEPT !.pc = "done", !.buf = <<>>,
                                          !.raised = "RuntimeError"])
           ELSE IF c.it >= Len(cache)
           THEN /\ file' = file
                /\ CacheStep(t, [c EXCEPT !.pc = "close"])
           ELSE /\ file' = file
                /\ CacheStep(t, [c EXCEPT !.it = @ + 1, !.size = size,
                                    !.buf = Append(@, RowOfEntry(cache[c.it + 1]))])
    /\ UNCHANGED cache

\* the file object writes its buffer out before the file is closed
Flush(t) ==
    /\ calls[t].pc = "iterate"
    /\ calls[t].buf # <<>>
    /\ file' = WriteAt(file, calls[t].off, calls[t].buf)
    /\ CacheStep(t, [calls[t] EXCEPT !.off = @ + Len(calls[t].buf), !.buf = <<>>])
    /\ UNCHANGED cache

\* the end of the with block, then `return lat, lng`
Close(t) ==
    /\ calls[t].pc = "close"
    /\ file' = WriteAt(file, calls[t].off, calls[t].buf)
    /\ CacheStep(t, [calls[t] EXCEPT !.pc = "done", !.buf = <<>>,
                                     !.ret = calls[t].latlng])
    /\ UNCHANGED cache

NextCache ==
    \E t \in Threads :
        Check(t) \/ Fetch(t) \/ Store(t) \/ Open(t) \/ WriteRow(t) \/ Flush(t) \/ Close(t)

SpecCache == InitCache /\ [][NextCache]_vars

BothReturned == pc = "ready" /\ calls # <<>> /\ \A t \in Threads : calls[t].pc = "done"

\* the cache in memory and the saved file hold one entry for the key, and
\* every entry loaded at construction is still there
OneEntryRestIntact(key) ==
    /\ Cardinality({e \in 1..Len(cache) : cache[e].key = key}) = 1
    /\ Cardinality({k \in 1..Len(file) : Len(file[k]) = 4 /\ file[k][2] = key}) = 1
    /\ \A e \in 1..Len(loaded) :
          /\ \E d \in 1..Len(cache) : cache[d] = loaded[e]
          /\ \E k \in 1..Len(file) : file[k] = RowOfEntry(loaded[e])

(* C15: when two concurrent get_coordinates calls for the same name have    *)
(* both returned, under any interleaving of their steps and a resolver that *)
(* gives the same coordinates each time, both have returned those           *)
(* coordinates, neither has raised, and the cache, in memory and in the     *)
(* saved file, holds exactly one entry for the key and every entry it had.  *)
C15_ConcurrentLookupsSafe ==
    BothReturned =>
        /\ \A t \in Threads : calls[t].ret = resolver /\ calls[t].raised = ""
        /\ OneEntryRestIntact("pomona")

\* the same for a resolver whose latitude and longitude are both non-zero
C15_SafeForNonZeroCoordinates ==
    (BothReturned /\ resolver[1] # 0 /\ resolver[2] # 0) =>
        /\ \A t \in Threads : calls[t].ret = resolver /\ calls[t].raised = ""
        /\ OneEntryRestIntact("pomona")

\* both calls missed the cache, fetched, stored and saved, the second
\* truncating the file while the first was writing it
C15_BothSaved ==
    /\ BothReturned
    /\ \A t \in Threads : calls[t].it > 0
    /\ resolver[1] # 0
    /\ loaded # <<>>

-----------------------------------------------------------------------------
(* src/RuleBased/main2.py and src/Matching/main2.py: fetch_flights, and the *)
(* copy of its filter in src/test_main2.py.  A datetime is the pair         *)
(* <<seconds, microseconds>>; datetime.now() is <<day, time, microsecond>>. *)

\* most unmatched flights the Flights query returns
MaxUnmatched == 3

\* d.replace(hour=0, minute=0, second=0): the microsecond stays
AtMidnight(day, us) == <<ToSeconds(day, <<0, 0, 0>>), us>>

\* a <= b on datetimes
NotAfter(a, b) == a[1] < b[1] \/ (a[1] = b[1] /\ a[2] <= b[2])

\* datetime.fromisoformat(f["date"] + "T" + f["earliest_time"]) raises:
\* the row has no earliest_time
FlightTimeRaises(f) == f.earliest_time = <<>>

\* the loop `for f in flights` of fetch_flights from position k on
RECURSIVE FilterFrom(_, _, _, _)
FilterFrom(fs, k, lower_bound, upper_bound) ==
    IF k > Len(fs) THEN <<>>
    ELSE (IF FlightTimeRaises(fs[k]) THEN <<>>
          ELSE LET flight_datetime == <<ToSeconds(fs[k].date, fs[k].earliest_time[1]), 0>>
               IN  IF NotAfter(lower_bound, flight_datetime)
                        /\ NotAfter(flight_datetime, upper_bound)
                   THEN <<fs[k]>> ELSE <<>>)
             \o FilterFrom(fs, k + 1, lower_bound, upper_bound)

\* fetch_flights with datetime.now() = n and the unmatched rows fs
fetch_flights(n, fs) ==
    LET lower_bound == AtMidnight(n[1] + 2, n[3])
        upper_bound == AtMidnight(n[1] + 4, n[3])
    IN  FilterFrom(fs, 1, lower_bound, upper_bound)

-----------------------------------------------------------------------------
(* Specification SpecFilter: fetch_flights on the unmatched rows of Flights *)

\* datetime.now(): <<day, time, microsecond>>
Nows == { <<15, <<12, 0, 0>>, 0>>, <<15, <<0, 0, 0>>, 0>>, <<15, <<23, 59, 59>>, 500000>> }

\* <<date, earliest_time>> of a row
FlightTimes ==
    { <<16, <<<<23, 59, 59>>>>>>,
      <<17, <<<<0, 0, 0>>>>>>,
      <<17, <<<<14, 0, 0>>>>>>,
      <<17, <<>>>>,
      <<19, <<<<0, 0, 0>>>>>>,
      <<19, <<<<10, 0, 0>>>>>>,
      <<20, <<<<16, 0, 0>>>>>> }

InitFilter ==
    /\ pc = "ready"
    /\ now \in Nows
    /\ \E n \in 0..MaxUnmatched : \E f \in [1..n -> FlightTimes] :
          unmatched = [k \in 1..n |->
                          [flight_id |-> k, date |-> f[k][1], earliest_time |-> f[k][2]]]
    /\ filtered = <<>>
    /\ IdleBucket /\ IdleValid /\ IdlePart /\ raised = ""
    /\ IdleCommit /\ IdleRun /\ IdleCycle /\ IdleLocationCache /\ IdleAux

FetchFlights ==
    /\ pc = "ready"
    /\ filtered' = fetch_flights(now, unmatched)
    /\ pc' = "filtered"
    /\ UNCHANGED <<now, unmatched, raised, bucketVars, validVars, partVars,
                   commitVars, runVars, cycleVars, cacheVars, auxVars>>

NextFilter == FetchFlights

SpecFilter == InitFilter /\ [][NextFilter]_vars

\* whole days from today to the date of the flight f
DaysAhead(f) == f.date - now[1]

\* the rows of unmatched with a time, dated 2 to 4 days from today
DatedTwoToFour == SelectSeq(unmatched, LAMBDA f : f.earliest_time # <<>> /\ DaysAhead(f) \in 2..4)

\* the data of test_fetch_flights_logic
TestNow == <<15, <<12, 0, 0>>, 0>>

TestFlights ==
    << [flight_id |-> 1, date |-> 17, earliest_time |-> <<<<14, 0, 0>>>>],
       [flight_id |-> 2, date |-> 19, earliest_time |-> <<<<10, 0, 0>>>>],
       [flight_id |-> 3, date |-> 20, earliest_time |-> <<<<16, 0, 0>>>>] >>

(* C16: fetch_flights keeps, in input order, exactly the unmatched flights  *)
(* dated 2 to 4 days from now; with now = day 15 at 12:00 and flights on    *)
(* day 17 at 14:00, day 19 at 10:00 and day 20 at 16:00 it returns the      *)
(* first two.                                                               *)
C16_KeepsTwoToFourDaysAhead ==
    pc = "filtered" =>
        /\ filtered = DatedTwoToFour
        /\ (now = TestNow /\ unmatched = TestFlights) =>
              filtered = <<TestFlights[1], TestFlights[2]>>

\* the example alone
C16_TestExample ==
    (pc = "filtered" /\ now = TestNow /\ unmatched = TestFlights) =>
        filtered = <<TestFlights[1], TestFlights[2]>>

-----------------------------------------------------------------------------
(* Properties of the pair phase and the expansion of match_bucket *)

\* the riders of the scored pair at position k of scored_pairs
ScoredPair(k) == <<scored_pairs[k][1], scored_pairs[k][2]>>

Accepted(p) == \E a \in 1..Len(selected_pairs) : selected_pairs[a] = p

SharesRider(p, q) == {p[1], p[2]} \cap {q[1], q[2]} # {}

(* C17: the pairs _select_pairs accepts are pairwise disjoint; every scored *)
(* pair it does not accept shares a rider with an accepted pair that comes  *)
(* before it in the sorted list; the first scored pair is accepted.         *)
C17_SelectionDisjointGreedy ==
    pc = "done" =>
        /\ \A a \in 1..Len(selected_pairs) : \A b \in 1..Len(selected_pairs) :
              a # b => ~SharesRider(selected_pairs[a], selected_pairs[b])
        /\ \A a \in 1..Len(selected_pairs) :
              \E k \in 1..Len(scored_pairs) : ScoredPair(k) = selected_pairs[a]
        /\ \A k \in 1..Len(scored_pairs) :
              ~Accepted(ScoredPair(k)) =>
                  \E l \in 1..(k - 1) :
                      Accepted(ScoredPair(l)) /\ SharesRider(ScoredPair(l), ScoredPair(k))
        /\ scored_pairs # <<>> => selected_pairs[1] = ScoredPair(1)

\* two pairs were accepted and a scored pair between them was passed over
C17_Witness ==
    /\ pc = "done"
    /\ Len(selected_pairs) = 2
    /\ \E k \in 1..Len(scored_pairs) : \E l \in 1..Len(scored_pairs) :
          k < l /\ ~Accepted(ScoredPair(k)) /\ ScoredPair(l) = selected_pairs[2]

LexBefore(p, q) == p[1] < q[1] \/ (p[1] = q[1] /\ p[2] < q[2])

(* C18: _build_scored_pairs returns each pair (i, j), i < j, of the bucket  *)
(* that _is_valid_group accepts, once, and no other pair, ordered by        *)
(* descending score; pairs of equal score are in the order of (i, j).       *)
C18_ScoredPairsSorted ==
    pc = "done" =>
        /\ \A k \in 1..Len(scored_pairs) :
              /\ 1 <= scored_pairs[k][1] /\ scored_pairs[k][1] < scored_pairs[k][2]
              /\ scored_pairs[k][2] <= Len(bucket)
              /\ _is_valid_group(<<bucket[scored_pairs[k][1]], bucket[scored_pairs[k][2]]>>)
        /\ \A i \in 1..Len(bucket) : \A j \in (i + 1)..Len(bucket) :
              _is_valid_group(<<bucket[i], bucket[j]>>) =>
                  Cardinality({k \in 1..Len(scored_pairs) : ScoredPair(k) = <<i, j>>}) = 1
        /\ \A k \in 1..Len(scored_pairs) : \A l \in (k + 1)..Len(scored_pairs) :
              \/ scored_pairs[k][3] > scored_pairs[l][3]
              \/ /\ scored_pairs[k][3] = scored_pairs[l][3]
                 /\ LexBefore(ScoredPair(k), ScoredPair(l))

\* the sort moved a pair forward past pairs of lower score, kept two pairs
\* of equal score in their order, and a pair of the bucket was left out
C18_Witness ==
    /\ pc = "done"
    /\ Len(scored_pairs) < (Len(bucket) * (Len(bucket) - 1)) \div 2
    /\ \E k \in 1..Len(scored_pairs) : \E l \in 1..Len(scored_pairs) :
          k < l /\ LexBefore(ScoredPair(l), ScoredPair(k))
    /\ \E k \in 1..Len(scored_pairs) : \E l \in 1..Len(scored_pairs) :
          k < l /\ scored_pairs[k][3] = scored_pairs[l][3]

(* C19: for every pair the selector accepted match_bucket returns a group   *)
(* that holds both riders of the pair, and it returns as many groups as     *)
(* pairs were accepted.                                                     *)
C19_OneGroupPerAcceptedPair ==
    pc = "done" =>
        /\ \A a \in 1..Len(selected_pairs) :
              \E g \in 1..Len(matches) :
                  /\ InGroup(bucket[selected_pairs[a][1]], g)
                  /\ InGroup(bucket[selected_pairs[a][2]], g)
        /\ Len(matches) = Len(selected_pairs)

(* C20: when match_bucket returns, no group of fewer than 4 riders can take *)
(* a leftover rider: the group with any leftover added is not a valid       *)
(* group.                                                                   *)
C20_ExpansionStopsAtDeadEnd ==
    pc = "done" =>
        \A g \in 1..Len(matches) :
            Len(GroupOf(g)) < 4 =>
                \A k \in 1..Len(leftovers) :
                    ~_is_valid_group(GroupOf(g) \o <<leftovers[k]>>)

\* a group grew to three riders and stopped with a rider left over
C20_Witness ==
    /\ pc = "done"
    /\ \E g \in 1..Len(matches) : Len(GroupOf(g)) = 3
    /\ leftovers # <<>>

-----------------------------------------------------------------------------
(* Claims about the steps of the expansion and the score (on Spec) *)

\* _score_group(trial, validate=True) of trial = group + [c]
TrialScore(group, c) == _score_group(group \o <<c>>, TRUE)

\* the riders of group g before its k-th rider was appended
GroupBefore(g, k) == SubSeq(GroupOf(g), 1, k - 1)

(* C21: every rider _expand_group appended to a group (the riders after the *)
(* seed pair) gave a valid trial group, no rider of the bucket outside the  *)
(* group at that step gave a higher trial score, and every such rider       *)
(* earlier in the bucket gave a strictly lower one.                         *)
C21_ExpansionAddsBest ==
    pc = "done" =>
        \A g \in 1..Len(matches) : \A k \in 3..Len(GroupOf(g)) :
            /\ _is_valid_group(GroupBefore(g, k) \o <<GroupOf(g)[k]>>)
            /\ \A x \in 1..Len(bucket) :
                  ~InList(bucket[x], GroupBefore(g, k)) =>
                      /\ TrialScore(GroupBefore(g, k), bucket[x])
                            <= TrialScore(GroupBefore(g, k), GroupOf(g)[k])
                      /\ x < IndexOf(bucket, GroupOf(g)[k]) =>
                            TrialScore(GroupBefore(g, k), bucket[x])
                               < TrialScore(GroupBefore(g, k), GroupOf(g)[k])

\* a group took a third rider where a later rider of the bucket tied with it
\* for the highest score
C21_Witness ==
    /\ pc = "done"
    /\ \E g \in 1..Len(matches) : \E x \in 1..Len(bucket) :
          /\ Len(GroupOf(g)) >= 3
          /\ x > IndexOf(bucket, GroupOf(g)[3])
          /\ ~InList(bucket[x], GroupBefore(g, 3))
          /\ TrialScore(GroupBefore(g, 3), bucket[x])
                = TrialScore(GroupBefore(g, 3), GroupOf(g)[3])

-----------------------------------------------------------------------------
(* Specification SpecScore: _score_group(members, validate=True) on two     *)
(* groups                                                                   *)

\* longest group handed to _score_group
MaxScored == 2

\* windows whose intersections last 2 minutes, 1 minute, 90 seconds and 30
\* seconds
ScoreWindows ==
    { [date |-> 1, earliest_time |-> <<9, 0, 0>>,  latest_time |-> <<9, 2, 0>>],
      [date |-> 1, earliest_time |-> <<9, 0, 0>>,  latest_time |-> <<9, 1, 0>>],
      [date |-> 1, earliest_time |-> <<9, 0, 30>>, latest_time |-> <<9, 2, 0>>] }

\* <<bags_no, bags_no_large>>: no bags, or half of NUM_BAGS
ScoreBags == { <<<<>>, <<>>>>, <<<<3>>, <<2>>>> }

ScoredGroups ==
    UNION { { [k \in 1..n |-> RiderOf(k, [window |-> f[k][1], bags |-> f[k][2],
                                          terminal |-> <<"1">>])] :
                 f \in [1..n -> ScoreWindows \X ScoreBags] } : n \in 0..MaxScored }

InitScore ==
    /\ pc = "ready"
    /\ members \in ScoredGroups
    /\ other \in ScoredGroups
    /\ scores = <<>>
    /\ valid = FALSE
    /\ match = <<>>
    /\ IdleBucket /\ IdlePart /\ IdleTerminal /\ IdleBag
    /\ raised = "" /\ IdleCommit /\ IdleRun /\ IdleCycle /\ IdleLocationCache
    /\ IdleFilter

ScoreGroups ==
    /\ pc = "ready"
    /\ scores' = <<_score_group(members, TRUE), _score_group(other, TRUE)>>
    /\ pc' = "scored"
    /\ UNCHANGED <<members, valid, other, match, bucketVars, partVars, raised,
                   commitVars, runVars, cycleVars, cacheVars, filterVars,
                   terminalVars, bagVars>>

NextScore == ScoreGroups

SpecScore == InitScore /\ [][NextScore]_vars

\* overlap_minutes + 0.5 * min(total_bags / capacity, 1), times 2 * capacity
SpecScoreOf(ms) ==
    2 * NUM_BAGS * _intersection(ms)[3] + Min2(_bags_total(ms), NUM_BAGS)

(* C22: the score of a valid group is overlap_minutes + 0.5 * min(total_bags *)
(* / NUM_BAGS, 1), and of two valid groups the one with more whole minutes  *)
(* of overlap has the strictly higher score.                                *)
C22_OverlapDominatesBags ==
    pc = "scored" =>
        /\ _is_valid_group(members) => scores[1] = SpecScoreOf(members)
        /\ _is_valid_group(other) => scores[2] = SpecScoreOf(other)
        /\ (/\ _is_valid_group(members)
            /\ _is_valid_group(other)
            /\ _intersection(members)[3] > _intersection(other)[3])
              => scores[1] > scores[2]

\* a group with one minute more of overlap and no bags was scored against a
\* group that fills the vehicle
C22_Witness ==
    /\ pc = "scored"
    /\ _is_valid_group(members)
    /\ _is_valid_group(other)
    /\ _intersection(members)[3] = _intersection(other)[3] + 1
    /\ _bags_total(members) = 0
    /\ _bags_total(other) = NUM_BAGS

-----------------------------------------------------------------------------
(* The three terminal normalizers on text.  A str is the sequence of its    *)
(* characters, an Optional[str] is <<>> for None and <<s>> for the str s.   *)

LowerLetters ==
    <<"a", "b", "c", "d", "e", "f", "g", "h", "i", "j", "k", "l", "m",
      "n", "o", "p", "q", "r", "s", "t", "u", "v", "w", "x", "y", "z">>

UpperLetters ==
    <<"A", "B", "C", "D", "E", "F", "G", "H", "I", "J", "K", "L", "M",
      "N", "O", "P", "Q", "R", "S", "T", "U", "V", "W", "X", "Y", "Z">>

DigitChars == {"0", "1", "2", "3", "4", "5", "6", "7", "8", "9"}

\* \w of the regular expressions
WordChar(c) == InList(c, LowerLetters) \/ InList(c, UpperLetters) \/ c \in DigitChars \/ c = "_"

\* str.upper()
StrUpper(s) ==
    [k \in 1..Len(s) |->
        IF InList(s[k], LowerLetters) THEN UpperLetters[IndexOf(LowerLetters, s[k])]
        ELSE s[k]]

\* str.strip()
RECURSIVE StrStrip(_)
StrStrip(s) ==
    IF s = <<>> THEN s
    ELSE IF s[1] = " " THEN StrStrip(Tail(s))
    ELSE IF s[Len(s)] = " " THEN StrStrip(SubSeq(s, 1, Len(s) - 1))
    ELSE s

\* str.isdigit()
IsDigit(s) == s # <<>> /\ \A k \in 1..Len(s) : s[k] \in DigitChars

\* str.startswith(prefix)
StartsWith(s, prefix) == Len(s) >= Len(prefix) /\ SubSeq(s, 1, Len(prefix)) = prefix

\* `sub in s`
Contains(s, sub) ==
    \E i \in 0..(Len(s) - Len(sub)) : SubSeq(s, i + 1, i + Len(sub)) = sub

\* s[i..j] is a match of \b\d+\b
DigitWord(s, i, j) ==
    /\ \A k \in i..j : s[k] \in DigitChars
    /\ (i = 1 \/ ~WordChar(s[i - 1]))
    /\ (j = Len(s) \/ ~WordChar(s[j + 1]))

\* re.search(r"\b\d+\b", s): None, or m.group(0) of the leftmost match
SearchDigitWord(s) ==
    LET found == {ij \in (1..Len(s)) \X (1..Len(s)) :
                     ij[1] <= ij[2] /\ DigitWord(s, ij[1], ij[2])}
    IN  IF found = {} THEN <<>>
        ELSE LET m == CHOOSE ij \in found : \A x \in found : ij[1] <= x[1]
             IN  <<SubSeq(s, m[1], m[2])>>

TERMINAL_ == <<"T", "E", "R", "M", "I", "N", "A", "L", " ">>

\* normalize_terminal of rider_data.py
normalize_terminal_str(raw) ==
    IF raw = <<>> \/ raw = <<<<>>>> THEN <<"U", "N", "K", "N", "O", "W", "N">>
    ELSE LET term == StrStrip(StrUpper(raw[1]))
         IN  IF SearchDigitWord(term) # <<>> THEN SearchDigitWord(term)[1]
             ELSE IF Len(term) = 1 /\ InList(term[1], UpperLetters) THEN term
             ELSE IF \/ Contains(term, <<"I", "N", "T", "L">>)
                     \/ Contains(term, <<"I", "N", "T", "E", "R", "N", "A", "T",
                                         "I", "O", "N", "A", "L">>)
                     \/ Contains(term, <<"T", "B", "I", "T">>)
                  THEN <<"I", "N", "T", "L">>
             ELSE term

\* _normalize_terminal of buckets.py
_normalize_terminal_str(raw) ==
    IF raw = <<>> THEN <<>>
    ELSE LET terminal == StrStrip(StrUpper(raw[1]))
             number   == SubSeq(terminal, 10, Len(terminal))
         IN  IF StartsWith(terminal, TERMINAL_) /\ IsDigit(number)
             THEN <<<<"T">> \o number>>
             ELSE IF IsDigit(terminal) THEN <<<<"T">> \o terminal>>
             ELSE <<terminal>>

\* MatchingEngine2._normalize_terminal
_normalize_terminal2_str(raw) ==
    IF raw = <<>> \/ raw = <<<<>>>> THEN <<>>
    ELSE LET terminal == StrStrip(StrUpper(raw[1]))
         IN  IF StartsWith(terminal, TERMINAL_)
             THEN <<<<"T">> \o SubSeq(terminal, 10, Len(terminal))>>
             ELSE IF IsDigit(terminal) THEN <<<<"T">> \o terminal>>
             ELSE <<terminal>>

-----------------------------------------------------------------------------
(* Specification SpecTerminal: the three normalizers on one terminal text *)

\* most spaces before and after the text
MaxPad == 1

Spaces(n) == [k \in 1..n |-> " "]

TerminalNumbers == { <<"1">>, <<"2">>, <<"1", "0">> }

\* what is written before the number: nothing, T, Terminal and a space
NumberPrefixes ==
    { <<>>, <<"T">>, <<"t">>,
      <<"T", "e", "r", "m", "i", "n", "a", "l", " ">>,
      <<"t", "e", "r", "m", "i", "n", "a", "l", " ">>,
      <<"T", "E", "R", "M", "I", "N", "A", "L", " ">> }

Padded(s) == { Spaces(a) \o s \o Spaces(b) : a \in 0..MaxPad, b \in 0..MaxPad }

\* the spellings of the numbered terminal n
Spellings(n) == UNION { Padded(p \o n) : p \in NumberPrefixes }

\* texts that name no numbered terminal
OtherTexts ==
    UNION { Padded(s) : s \in { <<>>, <<"B">>, <<"b">>,
                                <<"T", "B", "I", "T">>,
                                <<"T", "e", "r", "m", "i", "n", "a", "l", "2">>,
                                <<"2", "A">> } }

RawTerminals ==
    {<<>>} \cup { <<s>> : s \in (UNION { Spellings(n) : n \in TerminalNumbers })
                                    \cup OtherTexts }

InitTerminal ==
    /\ pc = "ready"
    /\ raw_terminal \in RawTerminals
    /\ normalized = <<>>
    /\ IdleBucket /\ IdleValid /\ IdlePart /\ IdleScore /\ IdleBag
    /\ raised = "" /\ IdleCommit /\ IdleRun /\ IdleCycle /\ IdleLocationCache
    /\ IdleFilter

NormalizeTerminal ==
    /\ pc = "ready"
    /\ normalized' = [rider_data |-> normalize_terminal_str(raw_terminal),
                      buckets    |-> _normalize_terminal_str(raw_terminal),
                      engine2    |-> _normalize_terminal2_str(raw_terminal)]
    /\ pc' = "normalized"
    /\ UNCHANGED <<raw_terminal, bucketVars, validVars, partVars, raised,
                   commitVars, runVars, cycleVars, cacheVars, filterVars,
                   scoreVars, bagVars>>

NextTerminal == NormalizeTerminal

SpecTerminal == InitTerminal /\ [][NextTerminal]_vars

\* the text was a spelling of the numbered terminal n
Spells(n) == raw_terminal # <<>> /\ raw_terminal[1] \in Spellings(n)

(* C26: each of the three normalizers maps every spelling of the numbered   *)
(* terminal n ("Terminal n", "n", "Tn", in any case, with spaces around it) *)
(* to "Tn".                                                                 *)
C26_SpellingsNormalizeToTn ==
    pc = "normalized" =>
        \A n \in TerminalNumbers :
            Spells(n) =>
                /\ normalized.rider_data = <<"T">> \o n
                /\ normalized.buckets = <<<<"T">> \o n>>
                /\ normalized.engine2 = <<<<"T">> \o n>>

\* the two normalizers that return "Tn"
C26_BucketsAndEngine2 ==
    pc = "normalized" =>
        \A n \in TerminalNumbers :
            Spells(n) =>
                /\ normalized.buckets = <<<<"T">> \o n>>
                /\ normalized.engine2 = <<<<"T">> \o n>>

\* normalize_terminal of rider_data.py gives the spellings of one terminal
\* one of two values: the number, or the text with its T
C26_RiderDataValues ==
    pc = "normalized" =>
        \A n \in TerminalNumbers :
            Spells(n) =>
                normalized.rider_data
                    = (IF StrUpper(StrStrip(raw_terminal[1])) = <<"T">> \o n
                       THEN <<"T">> \o n ELSE n)

-----------------------------------------------------------------------------
(* Specification SpecRunTerminals: fetch_riders, prepare_riders or run on   *)
(* rows of one airport that differ in their terminal                        *)

\* the terminal column of a row: null, or the number of a terminal
RowTerminals == { <<>>, <<"1">>, <<"2">> }

\* <<earliest_time, latest_time>>: two windows that overlap
OverlappingWindows ==
    { << <<<<9, 0, 0>>>>,  <<<<10, 0, 0>>>> >>,
      << <<<<9, 30, 0>>>>, <<<<10, 30, 0>>>> >> }

InitRunTerminals ==
    /\ pc = "ready"
    /\ \E n \in 0..MaxRows : \E f \in [1..n -> RowTerminals \X OverlappingWindows] :
          /\ rows = [k \in 1..n |->
                        [RowOf(k, <<<<"POMONA">>, "LAX", f[k][2]>>)
                            EXCEPT !.terminal = f[k][1]]]
          /\ QueryOrdered(rows)
    /\ fetched = <<>>
    /\ prepared = <<>>
    /\ all_matches = <<>>
    /\ all_unmatched = <<>>
    /\ written = <<>>
    /\ raised = ""
    /\ IdleBucket /\ IdleValid /\ IdlePart /\ IdleCommit /\ IdleCycle
    /\ IdleLocationCache /\ IdleFilter /\ IdleAux

SpecRunTerminals == InitRunTerminals /\ [][NextRun]_vars

\* the row of Flights a rider was built from
RowOfRider(r) == rows[IndexOf([k \in 1..Len(rows) |-> rows[k].flight_id], r.flight_id)]

LacksTerminal(r) == RowOfRider(r).terminal = <<>>

(* C23: under TERMINAL_MODE = "strict" no group run() forms holds a rider   *)
(* without a terminal together with a rider with one; two riders that both *)
(* lack a terminal are grouped, and a rider with a terminal and a rider     *)
(* without one are not.                                                     *)
C23_AbsentTerminalIsAValue ==
    pc = "ran" =>
        /\ \A g \in 1..Len(all_matches) :
              \A k \in 1..Len(all_matches[g].riders) :
                  LacksTerminal(all_matches[g].riders[k])
                      = LacksTerminal(all_matches[g].riders[1])
        /\ (Len(rows) = 2 /\ rows[1].terminal = <<>> /\ rows[2].terminal = <<>>)
              => Len(all_matches) = 1 /\ Len(all_matches[1].riders) = 2
        /\ (Len(rows) = 2 /\ (rows[1].terminal = <<>>) # (rows[2].terminal = <<>>))
              => all_matches = <<>> /\ Len(all_unmatched) = 2

\* a group of riders without a terminal was formed beside a group of riders
\* with one
C23_Witness ==
    /\ pc = "ran"
    /\ \E g \in 1..Len(all_matches) : LacksTerminal(all_matches[g].riders[1])
    /\ \E g \in 1..Len(all_matches) : ~LacksTerminal(all_matches[g].riders[1])

-----------------------------------------------------------------------------
(* Specification SpecCycleTerminals: one matching cycle of MatchingEngine2  *)
(* on flights of one school that differ in their terminal                   *)

InitCycleTerminals ==
    /\ pc = "ready"
    /\ \E n \in 0..MaxFlights : \E f \in [1..n -> RowTerminals \X FlightWindows] :
          flights = [k \in 1..n |->
                        [FlightOf(k, "POMONA", f[k][2]) EXCEPT !.terminal = f[k][1]]]
    /\ coords = [s \in Schools |-> <<0, 0>>]
    /\ dry_run \in BOOLEAN
    /\ cycle_groups = <<>>
    /\ rides = <<>>
    /\ match_rows = <<>>
    /\ matched_flights = {}
    /\ rides_created = 0
    /\ groups = <<>>
    /\ faults = <<>>
    /\ raised = ""
    /\ IdleBucket /\ IdleValid /\ IdlePart /\ IdleRun /\ IdleLocationCache
    /\ IdleFilter /\ IdleAux

SpecCycleTerminals == InitCycleTerminals /\ [][NextCycle]_vars

\* Rider.terminal of the flight with the id fid
TerminalOfFlight(fid) ==
    _normalize_terminal2(
        flights[IndexOf([k \in 1..Len(flights) |-> flights[k].flight_id], fid)].terminal)

(* C24: with terminal_mode = "strict" every group of a cycle of             *)
(* MatchingEngine2 has one terminal value, None counting as a value: no two *)
(* of its members differ in their terminal.                                 *)
C24_GroupsShareTerminal ==
    pc = "cycled" =>
        \A g \in 1..Len(cycle_groups) :
            \A a \in 1..Len(cycle_groups[g].member_flights) :
                TerminalOfFlight(cycle_groups[g].member_flights[a])
                    = TerminalOfFlight(cycle_groups[g].member_flights[1])

\* the same for the members that have a terminal: a group never holds two
\* different terminals
C24_NoTwoTerminals ==
    pc = "cycled" =>
        \A g \in 1..Len(cycle_groups) :
            Cardinality({TerminalOfFlight(cycle_groups[g].member_flights[a]) :
                            a \in 1..Len(cycle_groups[g].member_flights)} \ {<<>>}) <= 1

-----------------------------------------------------------------------------
(* Specification SpecMatch: _group_to_match on one group *)

\* longest group handed to _group_to_match
MaxMatched == 3

\* RiderLite.terminal as fetch_riders stores it: always a str
MatchedTerminals == { <<"1">>, <<"2">>, <<"UNKNOWN">> }

\* two windows that overlap
MatchedWindows ==
    { [date |-> 1, earliest_time |-> <<9, 0, 0>>,  latest_time |-> <<10, 0, 0>>],
      [date |-> 1, earliest_time |-> <<9, 30, 0>>, latest_time |-> <<10, 30, 0>>] }

InitMatch ==
    /\ pc = "ready"
    /\ \E n \in 1..MaxMatched : \E f \in [1..n -> MatchedWindows \X MatchedTerminals] :
          members = [k \in 1..n |->
                        RiderOf(k, [window |-> f[k][1], bags |-> <<<<1>>, <<>>>>,
                                    terminal |-> f[k][2]])]
    /\ match = <<>>
    /\ valid = FALSE
    /\ other = <<>>
    /\ scores = <<>>
    /\ IdleBucket /\ IdlePart /\ IdleTerminal /\ IdleBag
    /\ raised = "" /\ IdleCommit /\ IdleRun /\ IdleCycle /\ IdleLocationCache
    /\ IdleFilter

GroupToMatch ==
    /\ pc = "ready"
    /\ match' = _group_to_match(members, BucketKeyOf)
    /\ pc' = "converted"
    /\ UNCHANGED <<members, valid, other, scores, bucketVars, partVars, raised,
                   commitVars, runVars, cycleVars, cacheVars, filterVars,
                   terminalVars, bagVars>>

NextMatch == GroupToMatch

SpecMatch == InitMatch /\ [][NextMatch]_vars

\* all members have the terminal of the first
OneTerminal == \A k \in 1..Len(members) : members[k].terminal = members[1].terminal

(* C25: the terminal of the Match _group_to_match builds is the members'    *)
(* terminal when they all have the same one and None otherwise; for a group *)
(* that is valid under TERMINAL_MODE = "strict" it is the terminal of each  *)
(* member.                                                                  *)
C25_ConsensusTerminal ==
    pc = "converted" =>
        /\ OneTerminal => match.terminal = members[1].terminal
        /\ ~OneTerminal => match.terminal = <<>>
        /\ _is_valid_group(members) =>
              \A k \in 1..Len(members) : match.terminal = members[k].terminal

\* a group of three whose first two riders share a terminal and whose third
\* has another was converted
C25_Witness ==
    /\ pc = "converted"
    /\ Len(members) = 3
    /\ members[1].terminal = members[2].terminal
    /\ members[3].terminal # members[1].terminal
    /\ match.terminal = <<>>

-----------------------------------------------------------------------------
(* src/Matching/matching2.py: Matcher.apply_bag_constraint.  The frame is   *)
(* the sequence of its rows, a row the record of its columns cluster and    *)
(* BagNumber; the index label of a row is its position (generate_matches    *)
(* builds the frame with pd.DataFrame(raw_rows)).                           *)

\* the default of the parameter max_bag_sum
max_bag_sum == 10

\* df['cluster'].unique(): the cluster ids in the order of first appearance
RECURSIVE UniqueFrom(_, _, _)
UniqueFrom(rs, k, seen) ==
    IF k > Len(rs) THEN seen
    ELSE UniqueFrom(rs, k + 1,
                    IF InList(rs[k].cluster, seen) THEN seen
                    ELSE Append(seen, rs[k].cluster))

\* sort_values('BagNumber', ascending=False) of the index labels in idx: the
\* default sort is not stable, rows of equal BagNumber come in the order of
\* their rank in prio
RECURSIVE SortedLabels(_, _, _)
SortedLabels(rs, idx, prio) ==
    IF idx = {} THEN <<>>
    ELSE LET top == CHOOSE i \in idx : \A j \in idx \ {i} :
                        \/ rs[i].BagNumber > rs[j].BagNumber
                        \/ rs[i].BagNumber = rs[j].BagNumber /\ prio[i] < prio[j]
         IN  <<top>> \o SortedLabels(rs, idx \ {top}, prio)

\* a variant of the loop that opens a new cluster once the sum is over the
\* limit
RECURSIVE AssignFromLate(_, _, _, _, _, _)
AssignFromLate(rs, order, k, current_sum, current_cluster, new_cluster_id) ==
    IF k > Len(order) THEN [rows |-> rs, new_cluster_id |-> new_cluster_id]
    ELSE IF current_sum > max_bag_sum
         THEN AssignFromLate([rs EXCEPT ![order[k]].cluster = new_cluster_id],
                             order, k + 1, rs[order[k]].BagNumber,
                             new_cluster_id, new_cluster_id + 1)
         ELSE AssignFromLate([rs EXCEPT ![order[k]].cluster = current_cluster],
                             order, k + 1, current_sum + rs[order[k]].BagNumber,
                             current_cluster, new_cluster_id)

\* the loop `for idx, row in cluster_df.iterrows()` from row k of the sorted
\* cluster on
RECURSIVE AssignFrom(_, _, _, _, _, _)
AssignFrom(rs, order, k, current_sum, current_cluster, new_cluster_id) ==
    IF k > Len(order) THEN [rows |-> rs, new_cluster_id |-> new_cluster_id]
    ELSE IF current_sum + rs[order[k]].BagNumber > max_bag_sum
         THEN AssignFrom([rs EXCEPT ![order[k]].cluster = new_cluster_id],
                         order, k + 1, rs[order[k]].BagNumber,
                         new_cluster_id, new_cluster_id + 1)
         ELSE AssignFrom([rs EXCEPT ![order[k]].cluster = current_cluster],
                         order, k + 1, current_sum + rs[order[k]].BagNumber,
                         current_cluster, new_cluster_id)

\* what one pass of `for cluster_id in original_clusters` leaves
ConstrainOne(rs, cluster_id, new_cluster_id, prio) ==
    AssignFrom(rs,
               SortedLabels(rs, {i \in 1..Len(rs) : rs[i].cluster = cluster_id}, prio),
               1, 0, cluster_id, new_cluster_id)

\* the loop `for cluster_id in original_clusters` from cluster k on; st is
\* the frame and the next free cluster id
RECURSIVE ConstrainFrom(_, _, _, _)
ConstrainFrom(st, original_clusters, k, prio) ==
    IF k > Len(original_clusters) THEN st.rows
    ELSE ConstrainFrom(ConstrainOne(st.rows, original_clusters[k], st.new_cluster_id, prio),
                       original_clusters, k + 1, prio)

apply_bag_constraint(rs, prio) ==
    ConstrainFrom([rows |-> rs,
                   new_cluster_id |-> MaxOf([k \in 1..Len(rs) |-> rs[k].cluster]) + 1],
                  UniqueFrom(rs, 1, <<>>), 1, prio)

-----------------------------------------------------------------------------
(* Specification SpecBags: apply_bag_constraint on one clustered frame *)

\* most rows of the frame
MaxFrame == 3

\* the cluster ids predict_clusters gives
ClusterIds == 0..1

\* BagNumber of a rider: the last is more than one vehicle takes
BagNumbers == {0, 4, 6, 11}

InitBags ==
    /\ pc = "ready"
    /\ \E n \in 1..MaxFrame : \E f \in [1..n -> ClusterIds \X BagNumbers] :
          df = [k \in 1..n |-> [cluster |-> f[k][1], BagNumber |-> f[k][2]]]
    /\ df_result = <<>>
    /\ IdleBucket /\ IdleValid /\ IdlePart /\ IdleScore /\ IdleTerminal
    /\ raised = "" /\ IdleCommit /\ IdleRun /\ IdleCycle /\ IdleLocationCache
    /\ IdleFilter

ApplyBagConstraint ==
    /\ pc = "ready"
    /\ \E prio \in Permutations(1..Len(df)) :
          df_result' = apply_bag_constraint(df, prio)
    /\ pc' = "constrained"
    /\ UNCHANGED <<df, bucketVars, validVars, partVars, raised,
                   commitVars, runVars, cycleVars, cacheVars, filterVars,
                   scoreVars, terminalVars>>

NextBags == ApplyBagConstraint

SpecBags == InitBags /\ [][NextBags]_vars

\* the rows of the result assigned to the cluster c
RowsOf(c) == {i \in 1..Len(df_result) : df_result[i].cluster = c}

RECURSIVE BagSum(_)
BagSum(idx) ==
    IF idx = {} THEN 0
    ELSE LET i == CHOOSE x \in idx : TRUE
         IN  df_result[i].BagNumber + BagSum(idx \ {i})

ResultClusters == {df_result[i].cluster : i \in 1..Len(df_result)}

-----------------------------------------------------------------------------
(* Specification SpecWindows: match_bucket on a bucket that holds riders    *)
(* whose own window is empty or inverted                                    *)

\* two windows that overlap, a window that ends when it starts and a window
\* that ends before it starts
OwnWindows ==
    { [date |-> 1, earliest_time |-> <<9, 0, 0>>,  latest_time |-> <<10, 0, 0>>],
      [date |-> 1, earliest_time |-> <<9, 15, 0>>, latest_time |-> <<10, 30, 0>>],
      [date |-> 1, earliest_time |-> <<9, 30, 0>>, latest_time |-> <<9, 30, 0>>],
      [date |-> 1, earliest_time |-> <<9, 45, 0>>, latest_time |-> <<9, 0, 0>>] }

InitWindows ==
    /\ pc = "ready"
    /\ \E n \in 0..MaxRiders : \E f \in [1..n -> OwnWindows \X BagChoices] :
          /\ bucket = [k \in 1..n |->
                          RiderOf(k, [window |-> f[k][1], bags |-> f[k][2],
                                      terminal |-> <<"1">>])]
          /\ FetchOrdered(bucket)
    /\ matches = <<>>
    /\ leftovers = <<>>
    /\ scored_pairs = <<>>
    /\ selected_pairs = <<>>
    /\ IdleValid /\ IdlePart /\ IdleIO

SpecWindows == InitWindows /\ [][Next]_vars

\* the rider's own window is empty or inverted
NoOwnWindow(r) == _interval(r)[1] >= _interval(r)[2]

(* C28: a rider whose earliest time is not before its latest time is in no  *)
(* group match_bucket returns and is among the leftovers.                   *)
C28_NoWindowNoGroup ==
    pc = "done" =>
        \A k \in 1..Len(bucket) :
            NoOwnWindow(bucket[k]) =>
                /\ \A g \in 1..Len(matches) : ~InGroup(bucket[k], g)
                /\ InList(bucket[k], leftovers)

\* a group was formed around a rider with an inverted window and a rider
\* with an empty one, both of which start inside the group's intersection
C28_Witness ==
    /\ pc = "done"
    /\ matches # <<>>
    /\ \E k \in 1..Len(leftovers) : _interval(leftovers[k])[1] > _interval(leftovers[k])[2]
    /\ \E k \in 1..Len(leftovers) : _interval(leftovers[k])[1] = _interval(leftovers[k])[2]

-----------------------------------------------------------------------------
(* Claims about the order of the sink calls (on SpecCommit) *)

\* every sink call made for the groups returned what it should or raised
SinkAnswersOrRaises ==
    \A k \in 1..Len(faults) : faults[k] \notin {"no_data", "no_ride_id"}

\* the flight has a row of Matches under the id of a row of Rides
HasMembership(fid) ==
    \E k \in 1..Len(match_rows) :
        match_rows[k].flight_id = fid /\ InList(match_rows[k].ride_id, rides)

(* C29: whatever state _write_matches_db and _commit_groups leave, also     *)
(* after a sink call raised, every flight marked matched has a row of       *)
(* Matches whose ride id is that of a created ride.  For _commit_groups     *)
(* this is for a create_ride that returns the id of the ride it created or  *)
(* raises.                                                                  *)
C29_MarkedFlightsHaveMembership ==
    /\ pc \in {"written", "written3"} =>
          \A fid \in matched_flights : HasMembership(fid)
    /\ (pc = "committed" /\ SinkAnswersOrRaises) =>
          \A fid \in matched_flights : HasMembership(fid)

\* a committer stored the rows of a group and marked its flights, then
\* stored the rows of the next group and failed to mark its flights
C29_Witness ==
    /\ pc \in {"committed", "written"}
    /\ SinkAnswersOrRaises
    /\ Len(groups) >= 2
    /\ faults[1] = "none"
    /\ faults[2] = "mark_raises"
    /\ matched_flights = Range(groups[1])
    /\ Len(match_rows) = Len(groups[1]) + Len(groups[2])

-----------------------------------------------------------------------------
(* generate_matches of src/RuleBased/main2.py and src/Matching/main2.py:    *)
(* the loop over the buckets (the clusters) and the writes it makes.  The   *)
(* buckets are what partition_riders (what groupby("cluster")) hands to     *)
(* the loop, each one the flight ids of its riders; faults has one entry    *)
(* per flight id, "raises" when the update of that flight raises, and a     *)
(* last entry for the insert into Matches.                                  *)

MaxBuckets == 3

\* the sizes a bucket is drawn with: too small, a pair, more than four
BucketSizes == {1, 2, 5}

CallFaults == {"none", "raises"}

\* the flights of Init that an earlier cycle matched, with their rows
ExistingRows == <<[ride_id |-> 7, flight_id |-> 0]>>

RECURSIVE SizesBefore(_, _)
SizesBefore(sizes, k) ==
    IF k <= 1 THEN 0 ELSE SizesBefore(sizes, k - 1) + sizes[k - 1]

\* buckets of the given sizes over the flight ids 1, 2, ...
BucketsOfSizes(sizes) ==
    [k \in 1..Len(sizes) |->
        [i \in 1..sizes[k] |-> SizesBefore(sizes, k) + i]]

\* bucket_riders[:group_size] with group_size = min(len(bucket_riders), 4),
\* or nothing for a bucket of fewer than two (RuleBased/main2.py:115-120)
FirstFour(b) ==
    IF Len(b) < 2 THEN <<>> ELSE SubSeq(b, 1, IF Len(b) < 4 THEN Len(b) ELSE 4)

\* `if not (2 <= len(group) <= 4): continue` (Matching/main2.py:111-113)
WholeCluster(b) ==
    IF Len(b) >= 2 /\ Len(b) <= 4 THEN b ELSE <<>>

\* response.data[0]["ride_id"] + 1 of the row with the largest ride_id, or 1
RECURSIVE MaxRideId(_, _)
MaxRideId(ms, k) ==
    IF k > Len(ms) THEN 0
    ELSE LET rest == MaxRideId(ms, k + 1)
         IN  IF ms[k].ride_id > rest THEN ms[k].ride_id ELSE rest

NextRideId(ms) == IF ms = <<>> THEN 1 ELSE MaxRideId(ms, 1) + 1

\* the members of bucket k from position i on: a row is appended to
\* `matched` and the flight is marked, unless the update raises
RECURSIVE GenerateFrom(_, _, _, _, _, _, _, _)
GenerateFrom(bs, fs, whole, k, i, ride_id_counter, matched, st) ==
    IF k > Len(bs)
    THEN \* `if matched: supabase.table("Matches").insert(matched).execute()`
         IF matched = <<>> THEN st
         ELSE IF fs[Len(fs)] = "raises" THEN Raise(st, "APIError")
         ELSE [st EXCEPT !.match_rows = @ \o matched]
    ELSE LET group == IF whole THEN WholeCluster(bs[k]) ELSE FirstFour(bs[k])
         IN  IF i > Len(group)
             THEN GenerateFrom(bs, fs, whole, k + 1, 1,
                      IF group = <<>> THEN ride_id_counter ELSE ride_id_counter + 1,
                      matched, st)
             ELSE IF fs[group[i]] = "raises" THEN Raise(st, "APIError")
             ELSE GenerateFrom(bs, fs, whole, k, i + 1, ride_id_counter,
                      Append(matched, [ride_id |-> ride_id_counter,
                                       flight_id |-> group[i]]),
                      [st EXCEPT !.matched_flights = @ \cup {group[i]}])

\* src/Matching/main2.py: an exception leaves generate_matches
generate_matches(bs, fs, st) ==
    GenerateFrom(bs, fs, TRUE, 1, 1, NextRideId(st.match_rows), <<>>, st)

\* src/RuleBased/main2.py: the loop is inside `try`, the handler prints the
\* exception and generate_matches returns
generate_matches_buckets(bs, fs, st) ==
    LET Handled(res) == [res EXCEPT !.raised = ""]
    IN  Handled(GenerateFrom(bs, fs, FALSE, 1, 1, NextRideId(st.match_rows), <<>>, st))

\* up to MaxBuckets buckets, at most one database call that raises, and the
\* tables either empty or holding the rows of an earlier cycle
InitGenerate ==
    /\ pc = "ready"
    /\ \E n \in 0..MaxBuckets : \E sizes \in [1..n -> BucketSizes] :
          /\ groups = BucketsOfSizes(sizes)
          /\ \E fail \in 0..(SizesBefore(sizes, n + 1) + 1) :
                faults = [c \in 1..(SizesBefore(sizes, n + 1) + 1) |->
                             IF c = fail THEN "raises" ELSE "none"]
    /\ \E existing \in BOOLEAN :
          /\ match_rows = IF existing THEN ExistingRows ELSE <<>>
          /\ matched_flights = IF existing THEN {0} ELSE {}
    /\ rides = <<>>
    /\ rides_created = 0
    /\ raised = ""
    /\ IdleBucket /\ IdleValid /\ IdlePart /\ IdleRun /\ IdleCycle
    /\ IdleLocationCache /\ IdleFilter /\ IdleAux

GenerateMatches ==
    /\ pc = "ready"
    /\ Committed(generate_matches(groups, faults,
           SinkOf(rides, match_rows, matched_flights, rides_created, raised)))
    /\ pc' = "clusters_matched"

GenerateMatchesBuckets ==
    /\ pc = "ready"
    /\ Committed(generate_matches_buckets(groups, faults,
           SinkOf(rides, match_rows, matched_flights, rides_created, raised)))
    /\ pc' = "buckets_matched"

NextGenerate == GenerateMatches \/ GenerateMatchesBuckets

SpecGenerate == InitGenerate /\ [][NextGenerate]_vars

\* generate_matches has ended
Generated == pc \in {"clusters_matched", "buckets_matched"}

HasMatchesRow(fid) ==
    \E k \in 1..Len(match_rows) : match_rows[k].flight_id = fid

(* C30: when generate_matches has ended, also after a database call that    *)
(* raised, every flight marked matched has a row in the Matches table.      *)
C30_MarkedFlightsHaveRows ==
    Generated => \A fid \in matched_flights : HasMatchesRow(fid)

\* the same for the cycles in which no database call raises
C30_WithoutFailure ==
    (Generated /\ \A c \in 1..Len(faults) : faults[c] = "none") =>
        \A fid \in matched_flights : HasMatchesRow(fid)

====
